---- MODULE Spec2Model ----
(***************************************************************************)
(* Model of the slot machine's two algorithmic cores:                      *)
(*   - the combination resolver (src/src/combination.cpp), and             *)
(*   - the kinematic motion engine and reel controller                     *)
(*     (src/src/animation.hpp, src/src/animation.cpp).                     *)
(***************************************************************************)
EXTENDS Integers, Sequences, FiniteSets, TLC

(***************************************************************************)
(* Symbols (src/src/symbol.hpp) and configuration.                         *)
(***************************************************************************)
lucky_seven == 0
cross == 1
respin == 2
question == 3
apple == 4
carrot == 5
corn == 6
grape == 7
spade == 8
club == 9
heart == 10
diamond == 11
amethyst == 12
emerald == 13
topaz == 14
crystal == 15
g_nsymbols == 16
g_nreels == 5
big_multiplier == 5
small_multiplier == 2

Symbols == 0 .. (g_nsymbols - 1)

\* enum class SymbolFamily
special == "special"
fruit == "fruit"
suit == "suit"
jewel == "jewel"

get_symbol_family(sy) ==
  IF sy \in {lucky_seven, respin, question, cross} THEN special
  ELSE IF sy \in {apple, carrot, corn, grape} THEN fruit
  ELSE IF sy \in {spade, club, heart, diamond} THEN suit
  ELSE jewel

get_symbol_base_value(s) ==
  IF s = lucky_seven THEN 32
  ELSE IF s \in {cross, respin, question} THEN 12
  ELSE IF s \in {apple, carrot, corn, grape} THEN 8
  ELSE IF s \in {spade, club, heart, diamond} THEN 16
  ELSE IF s \in {amethyst, emerald, topaz, crystal} THEN 24
  ELSE 0

(***************************************************************************)
(* std::vector<Range> with its storage.  ContinuosRanges is created with   *)
(* g_nreels elements and only ever shrinks, so the allocation keeps        *)
(* g_nreels slots: buf is the allocation, n the vector's size().  An       *)
(* element access at an index >= n is out of bounds (undefined behaviour); *)
(* an unchecked build reads or writes the slot of the allocation.          *)
(***************************************************************************)
Range(b, s) == [begin |-> b, size |-> s]

Idx == 0 .. (g_nreels - 1)

Min(a, b) == IF a < b THEN a ELSE b
Max(a, b) == IF a < b THEN b ELSE a

RECURSIVE Pow(_, _)
Pow(b, e) == IF e <= 0 THEN 1 ELSE b * Pow(b, e - 1)

\* vector::erase(first, last) on indexes [f, l): the tail moves down, the
\* vacated slots keep their bytes.
VecErase(v, f, l) ==
  [v EXCEPT !.buf = [k \in Idx |-> IF k >= f /\ k + (l - f) < v.n
                                   THEN v.buf[k + (l - f)] ELSE v.buf[k]],
            !.n = v.n - (l - f)]

\* std::unique (libstdc++): adjacent_find, then compaction by move.
RECURSIVE AdjacentFind(_, _, _)
AdjacentFind(buf, n, i) ==
  IF i + 1 >= n THEN n
  ELSE IF buf[i] = buf[i + 1] THEN i
  ELSE AdjacentFind(buf, n, i + 1)

RECURSIVE UniqueLoop(_, _, _, _)
UniqueLoop(buf, n, dest, first) ==
  IF first >= n THEN [buf |-> buf, n |-> dest + 1]
  ELSE IF buf[dest] # buf[first]
       THEN UniqueLoop([buf EXCEPT ![dest + 1] = buf[first]], n, dest + 1, first + 1)
       ELSE UniqueLoop(buf, n, dest, first + 1)

\* std::unique followed by resize(unique_size)
VecUnique(v) ==
  LET f == AdjacentFind(v.buf, v.n, 0) IN
  IF f >= v.n THEN v
  ELSE LET u == UniqueLoop(v.buf, v.n, f, f + 2) IN
       [v EXCEPT !.buf = u.buf, !.n = u.n]

(***************************************************************************)
(* Combination (src/src/combination.cpp).  A resolver state s carries the  *)
(* vector m_ranges (buf, n) and two flags: oob, an element of m_ranges was *)
(* accessed at an index >= size() but inside the allocation; wild, an      *)
(* access fell outside the allocation or outside m_row by index wrap.      *)
(***************************************************************************)
\* the loop of get_ranges: ranges[i-1].begin is the head of the current run
RECURSIVE GetRangesLoop(_, _, _)
GetRangesLoop(data, ranges, i) ==
  IF i >= g_nreels THEN ranges
  ELSE
    LET pb == ranges[i - 1].begin
        prev_range == ranges[pb]
    IN IF data[i] = data[prev_range.begin]
       THEN GetRangesLoop(data,
              [ranges EXCEPT ![i] = Range(prev_range.begin, ranges[i].size),
                             ![pb] = Range(prev_range.begin, prev_range.size + 1)],
              i + 1)
       ELSE GetRangesLoop(data,
              [k \in Idx |->
                 IF k = i THEN Range(i, 1)
                 ELSE IF k > pb /\ k < prev_range.begin + prev_range.size
                      THEN prev_range ELSE ranges[k]],
              i + 1)

\* the tail of get_ranges: fill the last run, std::unique, resize, and the
\* erase of an empty range
EraseEmpty(u) ==
  LET empties == {k \in Idx : k < u.n /\ u.buf[k] = Range(0, 0)}
  IN IF empties = {} THEN u
     ELSE LET e == CHOOSE k \in empties : \A m \in empties : k <= m
          IN VecErase(u, e, e + 1)

GetRangesFinish(r1) ==
  LET lb == r1[g_nreels - 1].begin
  IN EraseEmpty(VecUnique([buf |-> [k \in Idx |-> IF k > lb THEN r1[lb] ELSE r1[k]],
                           n |-> g_nreels]))

get_ranges(data) ==
  GetRangesFinish(GetRangesLoop(data,
    [k \in Idx |-> IF k = 0 THEN Range(0, 1) ELSE Range(0, 0)], 1))

\* get_max_equal_range over data[0 .. size-1] = m_row[base .. base+size-1]
RECURSIVE MaxEqualLoop(_, _, _, _, _, _)
MaxEqualLoop(row, base, size, i, cur, maximal) ==
  IF i >= size
  THEN IF cur.size > maximal.size THEN cur ELSE maximal
  ELSE IF row[base + i] = row[base + i - 1]
       THEN MaxEqualLoop(row, base, size, i + 1, Range(cur.begin, cur.size + 1), maximal)
       ELSE MaxEqualLoop(row, base, size, i + 1, Range(i, 1),
                         IF cur.size > maximal.size THEN cur ELSE maximal)

get_max_equal_range(row, base, size) ==
  MaxEqualLoop(row, base, size, 1, Range(0, 1), Range(0, 1))

\* a first loop that connects nothing
KeepRanges(row, s, i) == s

\* first loop of apply_questions: connect ranges with '?' in the middle
RECURSIVE QuestionsMiddle(_, _, _)
QuestionsMiddle(row, s, i) ==
  IF ~(i < s.n - 1) THEN s
  ELSE
    LET sym == row[s.buf[i].begin]
        ls  == row[s.buf[i - 1].begin]
        rs  == row[s.buf[i + 1].begin]
    IN IF sym = question /\ ls = rs
       THEN LET merged == [s EXCEPT !.buf[i - 1].size =
                              s.buf[i - 1].size + s.buf[i].size + s.buf[i + 1].size]
            IN QuestionsMiddle(row, VecErase(merged, i, i + 2), i)
       ELSE QuestionsMiddle(row, s, i + 1)

\* second loop of apply_questions: expand to the left or right side.
\* sel is the index of max_range, -1 for the local dummy{0,0}.
RECURSIVE QuestionsSide(_, _, _)
QuestionsSide(row, s, i) ==
  IF i >= s.n THEN s
  ELSE IF row[s.buf[i].begin] # question THEN QuestionsSide(row, s, i + 1)
  ELSE
    LET sel == IF i = 0 THEN i + 1
               ELSE IF i = s.n - 1 THEN i - 1
               ELSE IF s.buf[i - 1].size < s.buf[i + 1].size THEN i + 1
               ELSE IF s.buf[i - 1].size > s.buf[i + 1].size THEN i - 1
               ELSE -1
        s1 == IF sel >= s.n THEN [s EXCEPT !.oob = TRUE] ELSE s
        max_size == IF sel = -1 THEN 0 ELSE s.buf[sel].size
    IN IF max_size < s.buf[i].size
       THEN QuestionsSide(row, s1, i + 1)
       ELSE LET grown == [s1 EXCEPT !.buf[sel] =
                            Range(Min(s.buf[sel].begin, s.buf[i].begin),
                                  s.buf[sel].size + s.buf[i].size)]
            IN QuestionsSide(row, VecErase(grown, i, i + 1), i)

\* m_ranges.size() - 1 is unsigned: on an empty vector the first loop runs
\* off the allocation
apply_questions(row, s) ==
  IF s.n = 0
  THEN IF s.buf[0].size = g_nreels THEN [s EXCEPT !.oob = TRUE]
       ELSE [s EXCEPT !.oob = TRUE, !.wild = TRUE]
  ELSE IF s.buf[0].size = g_nreels THEN s
  ELSE QuestionsSide(row, QuestionsMiddle(row, s, 1), 0)

RECURSIVE CrossesLoop(_, _, _)
CrossesLoop(row, s, i) ==
  IF i >= s.n THEN s
  ELSE IF row[s.buf[i].begin] = cross
       THEN LET a == IF i > 0 THEN [s EXCEPT !.buf[i - 1].size = 1] ELSE s
                b == IF i < s.n - 1 THEN [a EXCEPT !.buf[i + 1].size = 1] ELSE a
            IN CrossesLoop(row, b, i + 1)
       ELSE CrossesLoop(row, s, i + 1)

apply_crosses(row, s) == CrossesLoop(row, s, 0)

RECURSIVE FamilyLoop(_, _, _)
FamilyLoop(row, s, i) ==
  IF i >= s.n THEN s
  ELSE
    LET prev == s.buf[i - 1]
        cur  == s.buf[i]
    IN IF cur.begin = 0            \* m_row[cur.begin - 1] wraps
       THEN [s EXCEPT !.wild = TRUE]
       ELSE
         LET sf  == get_symbol_family(row[cur.begin])
             psf == get_symbol_family(row[cur.begin - 1])
             prev_broken == i > 1 /\ row[s.buf[i - 2].begin] = cross
             cur_broken  == i < s.n - 1 /\ row[s.buf[i + 1].begin] = cross
         IN IF sf # psf \/ sf = special \/ prev_broken \/ cur_broken
            THEN FamilyLoop(row, s, i + 1)
            ELSE LET m == Range(prev.begin, prev.size + cur.size)
                 IN FamilyLoop(row, [s EXCEPT !.buf[i - 1] = m, !.buf[i] = m], i + 1)

\* a family pass that merges nothing
KeepFamilies(row, s) == s

apply_family_symbols(row, s) ==
  LET t == FamilyLoop(row, s, 1) IN
  IF t.wild THEN t ELSE VecUnique(t)

\* the three passes, in this order
ApplyPasses(row, s) ==
  LET q == apply_questions(row, s) IN
  IF q.wild THEN q ELSE apply_family_symbols(row, apply_crosses(row, q))

\* a selection that keeps the first range
FirstRange(s, i, best, bestSize) == best

\* selection of the largest range: leftmost on ties
RECURSIVE MaxComboIndex(_, _, _, _)
MaxComboIndex(s, i, best, bestSize) ==
  IF i >= s.n THEN best
  ELSE IF s.buf[i].size > bestSize
       THEN MaxComboIndex(s, i + 1, i, s.buf[i].size)
       ELSE MaxComboIndex(s, i + 1, best, bestSize)

\* the dominant symbol of the range combo, equal_symbols its longest run
\* of equal symbols
DominantOf(row, s, flags, combo, equal_symbols) ==
  LET dominant == row[combo.begin + equal_symbols.begin]
      cmb_beg == combo.begin
      cmb_end == cmb_beg + combo.size
      es_beg == equal_symbols.begin + combo.begin
      es_end == es_beg + equal_symbols.size
      substituted == dominant = question /\ equal_symbols.size < combo.size
      in_middle == es_beg > cmb_beg /\ es_end < cmb_end
      in_middle_dominated == in_middle /\ row[es_beg - 1] = row[es_end]
      rowoob == substituted /\ ~in_middle_dominated /\ es_end >= g_nreels
      dom == IF ~substituted THEN dominant
             ELSE IF in_middle_dominated THEN row[es_beg - 1]
             ELSE IF rowoob THEN lucky_seven
             ELSE row[es_end]
  IN [ranges |-> s, flags |-> flags,
      r |-> [combo_range |-> combo, exact |-> equal_symbols.size,
             dominant |-> dom, weak |-> FALSE, rowoob |-> rowoob]]

\* the weak-combination cutoff on the selected range combo
ReportCombo(row, s, combo) ==
  LET flags == [oob |-> s.oob \/ s.n = 0, wild |-> s.wild]
      nothing == [combo_range |-> combo, exact |-> 0, dominant |-> lucky_seven,
                  weak |-> TRUE, rowoob |-> FALSE]
  IN IF s.wild \/ combo.begin + combo.size > g_nreels
     THEN [ranges |-> s, flags |-> [flags EXCEPT !.wild = TRUE], r |-> nothing]
     ELSE IF combo.size < (g_nreels + 1) \div 2
     THEN [ranges |-> s, flags |-> flags, r |-> nothing]
     ELSE DominantOf(row, s, flags, combo,
                     get_max_equal_range(row, combo.begin, combo.size))

\* get_result after the passes, on their result s
SelectCombo(row, s) ==
  ReportCombo(row, s, s.buf[MaxComboIndex(s, 1, 0, s.buf[0].size)])

\* get_result up to the choice of the dominant symbol.  rowoob: the
\* dominant symbol is read at m_row[g_nreels], past the end of the array.
get_result_core(row, s0) == SelectCombo(row, ApplyPasses(row, s0))

\* the multiplier and the Result, for the dominant symbol d.  The range
\* lies inside the row, so the uint32_t product is at most 5^5 * 32 and
\* never wraps.
MakeResult(r, d) ==
  IF r.weak
  THEN [combo_range |-> r.combo_range, points |-> 0, free_speen |-> FALSE]
  ELSE LET multiplier == Pow(big_multiplier, r.exact)
                         * Pow(small_multiplier, r.combo_range.size - r.exact)
       IN [combo_range |-> r.combo_range,
           points |-> multiplier * get_symbol_base_value(d),
           free_speen |-> (d = respin)]

(***************************************************************************)
(* float arithmetic.  A number is a pair <<n, d>>: the rational n/d in     *)
(* lowest terms with d > 0, or <<1, 0>> for +infinity, <<-1, 0>> for       *)
(* -infinity and <<0, 0>> for NaN.  The finite operations are exact (the   *)
(* rounding of float is not modelled); the non-finite ones follow IEEE 754.*)
(***************************************************************************)
Abs(n) == IF n < 0 THEN -n ELSE n

RECURSIVE Gcd(_, _)
Gcd(a, b) == IF b = 0 THEN a ELSE Gcd(b, a % b)

Q(n, d) ==
  LET g == Gcd(Abs(n), Abs(d))
      sg == IF d < 0 THEN -1 ELSE 1
  IN <<sg * (n \div g), sg * (d \div g)>>

Zero == <<0, 1>>
infinity == <<1, 0>>
NAN == <<0, 0>>
I(n) == <<n, 1>>

isnan(x) == x = NAN
isinf(x) == x[2] = 0 /\ x[1] # 0
Sign(x) == IF x[1] > 0 THEN 1 ELSE IF x[1] < 0 THEN -1 ELSE 0

RNeg(x) == <<-x[1], x[2]>>

RAdd(x, y) ==
  IF isnan(x) \/ isnan(y) THEN NAN
  ELSE IF isinf(x) THEN (IF isinf(y) /\ y # x THEN NAN ELSE x)
  ELSE IF isinf(y) THEN y
  ELSE LET g == Gcd(x[2], y[2])
       IN Q(x[1] * (y[2] \div g) + y[1] * (x[2] \div g), (x[2] \div g) * y[2])

RSub(x, y) == RAdd(x, RNeg(y))

RMul(x, y) ==
  IF isnan(x) \/ isnan(y) THEN NAN
  ELSE IF isinf(x) \/ isinf(y)
       THEN (IF Sign(x) * Sign(y) = 0 THEN NAN ELSE <<Sign(x) * Sign(y), 0>>)
  ELSE LET g1 == Gcd(Abs(x[1]), y[2])
           g2 == Gcd(Abs(y[1]), x[2])
       IN Q((x[1] \div g1) * (y[1] \div g2), (x[2] \div g2) * (y[2] \div g1))

RDiv(x, y) ==
  IF isnan(x) \/ isnan(y) THEN NAN
  ELSE IF isinf(y) THEN (IF isinf(x) THEN NAN ELSE Zero)
  ELSE IF y[1] = 0 THEN (IF x[1] = 0 THEN NAN ELSE <<Sign(x), 0>>)
  ELSE IF isinf(x) THEN <<Sign(x) * Sign(y), 0>>
  ELSE RMul(x, Q(y[2], y[1]))

RLt(x, y) ==
  IF isnan(x) \/ isnan(y) THEN FALSE
  ELSE IF isinf(x) /\ isinf(y) THEN x[1] < y[1]
  ELSE x[1] * y[2] < y[1] * x[2]

RLe(x, y) == ~isnan(x) /\ ~isnan(y) /\ ~RLt(y, x)
RGt(x, y) == RLt(y, x)
RGe(x, y) == RLe(y, x)
REq(x, y) == ~isnan(x) /\ x = y

\* std::min(a, b) and std::max(a, b)
RMin(a, b) == IF RLt(b, a) THEN b ELSE a
RMax(a, b) == IF RLt(a, b) THEN b ELSE a

\* std::floor, std::ceil, std::round (halfway cases away from zero)
RFloor(x) == IF x[2] = 0 THEN x ELSE I(x[1] \div x[2])
RCeil(x)  == IF x[2] = 0 THEN x ELSE I(-((-x[1]) \div x[2]))
RRound(x) ==
  IF x[2] = 0 THEN x
  ELSE IF x[1] >= 0 THEN I((2 * x[1] + x[2]) \div (2 * x[2]))
  ELSE I(-((2 * (-x[1]) + x[2]) \div (2 * x[2])))

IsWhole(x) == x[2] = 1

\* integer square root (floor), by Newton's iteration
RECURSIVE ISqrtFrom(_, _)
ISqrtFrom(n, x) ==
  LET y == (x + n \div x) \div 2
  IN IF y >= x THEN x ELSE ISqrtFrom(n, y)

ISqrt(n) == IF n < 2 THEN n ELSE ISqrtFrom(n, n)

\* the numbers whose square root is a number of the model
HasExactSqrt(x) ==
  IF x[2] = 0 \/ x[1] < 0 THEN TRUE
  ELSE ISqrt(x[1]) * ISqrt(x[1]) = x[1] /\ ISqrt(x[2]) * ISqrt(x[2]) = x[2]

\* std::sqrt, on the numbers of HasExactSqrt
RSqrt(x) ==
  IF isnan(x) \/ x[1] < 0 THEN NAN
  ELSE IF isinf(x) THEN infinity
  ELSE <<ISqrt(x[1]), ISqrt(x[2])>>

(***************************************************************************)
(* quad_equation (src/src/animation.cpp)                                   *)
(***************************************************************************)
Discriminant(a, b, c) == RSub(RMul(b, b), RMul(I(4), RMul(a, c)))

\* a variant that reports the vertex whatever the discriminant
VertexRoot(a, b, d) == <<RDiv(RNeg(b), RMul(I(2), a)), NAN>>

\* the roots for a # 0, from the discriminant d
QuadRoots(a, b, d) ==
  IF RGt(d, Zero)
  THEN <<RDiv(RAdd(RNeg(b), RSqrt(d)), RMul(I(2), a)),
         RDiv(RSub(RNeg(b), RSqrt(d)), RMul(I(2), a))>>
  ELSE IF d = Zero
  THEN <<RDiv(RNeg(b), RMul(I(2), a)), NAN>>
  ELSE <<NAN, NAN>>

quad_equation(a, b, c) ==
  IF a = Zero
  THEN IF b = Zero
       THEN IF c = Zero THEN <<infinity, NAN>> ELSE <<NAN, NAN>>
       ELSE <<RDiv(RNeg(c), b), NAN>>
  ELSE QuadRoots(a, b, Discriminant(a, b, c))

(***************************************************************************)
(* Motion<MT> (src/src/animation.hpp).  A motion is a record of its        *)
(* components pos, spd, acc, jrk; a component above the order MT is not    *)
(* stored, reads 0 and is not written.                                     *)
(***************************************************************************)
stationary == 0
uniform == 1
accelerated == 2
jerked == 3

get_position(MT, m) == m.pos
get_speed(MT, m) == IF MT >= uniform THEN m.spd ELSE Zero
get_acceleration(MT, m) == IF MT >= accelerated THEN m.acc ELSE Zero
get_jerk(MT, m) == IF MT >= jerked THEN m.jrk ELSE Zero

set_positon(MT, m, p) == [m EXCEPT !.pos = p]
set_speed(MT, m, v) == IF MT >= uniform THEN [m EXCEPT !.spd = v] ELSE m
set_acceleration(MT, m, a) == IF MT >= accelerated THEN [m EXCEPT !.acc = a] ELSE m
set_jerk(MT, m, j) == IF MT >= jerked THEN [m EXCEPT !.jrk = j] ELSE m

\* a variant that moves with the speed and acceleration of the start of
\* the step
euler_advance(MT, m, dt) ==
  LET np == RAdd(get_position(MT, m), RMul(get_speed(MT, m), dt))
      nv == RAdd(get_speed(MT, m), RMul(get_acceleration(MT, m), dt))
      na == RAdd(get_acceleration(MT, m), RMul(get_jerk(MT, m), dt))
  IN set_acceleration(MT, set_speed(MT, set_positon(MT, m, np), nv), na)

\* Motion::advance
Motion_advance(MT, m, dt) ==
  LET j == get_jerk(MT, m)
      a == get_acceleration(MT, m)
      v == get_speed(MT, m)
      p == get_position(MT, m)
      np == RAdd(p, RMul(RAdd(v, RMul(RAdd(RDiv(a, I(2)),
                                         RDiv(RMul(j, dt), I(6))), dt)), dt))
      nv == RAdd(v, RMul(RAdd(a, RDiv(RMul(j, dt), I(2))), dt))
      na == RAdd(a, RMul(j, dt))
  IN set_acceleration(MT, set_speed(MT, set_positon(MT, m, np), nv), na)

\* Motion::time_to_speed: [t, second] with second the value left in
\* *second_res
\* the times chosen among the roots of the jerked speed equation
PickRoots(roots) ==
  LET min_root == RMin(roots[1], roots[2])
      max_root == RMax(roots[1], roots[2])
      never == [t |-> infinity, second |-> infinity]
  IN IF isnan(roots[1]) THEN never
     ELSE IF isnan(roots[2])
     THEN (IF RLt(roots[1], Zero) THEN never
           ELSE [t |-> roots[1], second |-> infinity])
     ELSE IF RLt(max_root, Zero) THEN never
     ELSE IF RLt(min_root, Zero) THEN [t |-> max_root, second |-> infinity]
     ELSE [t |-> min_root, second |-> max_root]

\* the time chosen for the accelerated speed equation
PickTime(t) ==
  IF RLt(t, Zero) THEN [t |-> infinity, second |-> infinity]
  ELSE [t |-> t, second |-> infinity]

time_to_speed(MT, m, v1) ==
  LET j == get_jerk(MT, m)
      a == get_acceleration(MT, m)
      v0 == get_speed(MT, m)
  IN IF MT = stationary
     THEN [t |-> IF v1 = Zero THEN Zero ELSE infinity, second |-> infinity]
     ELSE IF MT = uniform
     THEN [t |-> IF REq(v1, v0) THEN Zero ELSE infinity, second |-> infinity]
     ELSE IF MT = accelerated
     THEN PickTime(RDiv(RSub(v1, v0), a))
     ELSE PickRoots(quad_equation(RDiv(j, I(2)), a, RSub(v0, v1)))

\* the square root taken by time_to_speed(v1) is a number of the model
ExactTimeToSpeed(MT, m, v1) ==
  IF MT < jerked \/ get_jerk(MT, m) = Zero THEN TRUE
  ELSE HasExactSqrt(Discriminant(RDiv(get_jerk(MT, m), I(2)),
                         get_acceleration(MT, m),
                         RSub(get_speed(MT, m), v1)))

\* AcceleratedMotion::nccry_acc_to_speed, on AcceleratedMotion{acc, spd, pos}
nccry_acc_to_speed(accm, speed, time) == RDiv(RSub(speed, accm.spd), time)

(***************************************************************************)
(* SpeedLimitedMotion<MT>: a motion with the fields m_min_speed and        *)
(* m_max_speed.                                                            *)
(***************************************************************************)
limit_reached(MT, m) ==
  RLe(get_speed(MT, m), m.m_min_speed) \/ RGe(get_speed(MT, m), m.m_max_speed)

\* a limit step that lets the speed go on changing
free_advance(MT, m, dt) == Motion_advance(MT, m, dt)

\* Keeps speed the same
uniform_advance(MT, m, dt) ==
  set_acceleration(MT,
    set_positon(MT, m, RAdd(get_position(MT, m), RMul(get_speed(MT, m), dt))),
    RAdd(get_acceleration(MT, m), RMul(get_jerk(MT, m), dt)))

ExtremumHit(t, v) == [time |-> t, value |-> v]

\* std::sort by ExtremumHit::operator< (insertion sort: the array has four
\* elements; elements of equal time are equal in value or infinite in time)
RECURSIVE InsertHit(_, _)
InsertHit(sorted, h) ==
  IF sorted = <<>> THEN <<h>>
  ELSE IF RLt(h.time, sorted[Len(sorted)].time)
       THEN Append(InsertHit(SubSeq(sorted, 1, Len(sorted) - 1), h),
                   sorted[Len(sorted)])
       ELSE Append(sorted, h)

SortHits(e) == InsertHit(InsertHit(InsertHit(<<e[1]>>, e[2]), e[3]), e[4])

\* the loop of SpeedLimitedMotion::advance over the sorted extremums;
\* returns the motion and prev_t
RECURSIVE ExtremumLoop(_, _, _, _, _, _)
ExtremumLoop(MT, m, extremums, dt, i, prev_t) ==
  IF i > Len(extremums) THEN [m |-> m, prev_t |-> prev_t]
  ELSE IF isinf(extremums[i].time) THEN [m |-> m, prev_t |-> prev_t]
  ELSE
    LET is_time_up == RLe(dt, extremums[i].time)
        t_spent == RSub(IF is_time_up THEN dt ELSE extremums[i].time, prev_t)
        at_max == extremums[i].value = m.m_max_speed
        is_exceeded == IF at_max THEN RGe(get_speed(MT, m), m.m_max_speed)
                       ELSE RLe(get_speed(MT, m), m.m_min_speed)
        naturaly_limited == IF at_max THEN RGt(get_jerk(MT, m), Zero)
                            ELSE RLt(get_jerk(MT, m), Zero)
        is_prev_same == i > 1 /\ extremums[i - 1].value = extremums[i].value
        will_reduce == is_prev_same /\ naturaly_limited
        m1 == IF is_exceeded /\ ~will_reduce
              THEN uniform_advance(MT, m, t_spent)
              ELSE IF ~is_time_up
              THEN set_speed(MT, Motion_advance(MT, m, t_spent), extremums[i].value)
              ELSE Motion_advance(MT, m, t_spent)
    IN IF is_time_up THEN [m |-> m1, prev_t |-> dt]
       ELSE ExtremumLoop(MT, m1, extremums, dt, i + 1, extremums[i].time)

\* the extremums array, from the two time_to_speed results
Extremums(m, to_max, to_min) ==
  <<ExtremumHit(to_max.t, m.m_max_speed),
    ExtremumHit(to_max.second, m.m_max_speed),
    ExtremumHit(to_min.t, m.m_min_speed),
    ExtremumHit(to_min.second, m.m_min_speed)>>

\* the step after the loop, on the loop's result r
RightBranch(MT, r, dt) ==
  IF RLt(r.prev_t, dt)      \* right branch of the parabola
  THEN uniform_advance(MT, r.m, RSub(dt, r.prev_t))
  ELSE r.m

\* SpeedLimitedMotion::advance
SpeedLimitedMotion_advance(MT, m, dt) ==
  RightBranch(MT,
    ExtremumLoop(MT, m,
      SortHits(Extremums(m, time_to_speed(MT, m, m.m_max_speed),
                            time_to_speed(MT, m, m.m_min_speed))),
      dt, 1, Zero),
    dt)

\* the square roots taken by SpeedLimitedMotion::advance are numbers of the
\* model
ExactAdvance(MT, m) ==
  ExactTimeToSpeed(MT, m, m.m_max_speed) /\ ExactTimeToSpeed(MT, m, m.m_min_speed)

(***************************************************************************)
(* ReelMotion (src/src/animation.cpp): SpeedLimitedMotion<jerked> with     *)
(* m_state, m_length, m_min_speed_proxy and m_max_speed_proxy.             *)
(***************************************************************************)
rest == "rest"
had_impact == "had_impact"
moving == "moving"

\* ReelMotion::ReelMotion(reel_length)
ReelMotion(reel_length) ==
  [pos |-> Zero, spd |-> Zero, acc |-> Zero, jrk |-> Zero,
   m_min_speed |-> Zero, m_max_speed |-> Zero,
   m_state |-> rest, m_length |-> reel_length,
   m_min_speed_proxy |-> Zero, m_max_speed_proxy |-> Zero]

\* position - floor(position / m_length) * m_length
\* a position left as it is
KeepPosition(r) == r

WrapPosition(r) ==
  LET rotations_made == RFloor(RDiv(r.pos, r.m_length))
  IN [r EXCEPT !.pos = RSub(r.pos, RMul(rotations_made, r.m_length))]

set_reel_length(r, length) ==
  LET r1 == [r EXCEPT !.m_length = length]
  IN IF RGe(r1.pos, r1.m_length) THEN WrapPosition(r1) ELSE r1

\* stop_in with the jerk of a plan that covers half the distance
stop_in_half_jerk(r, end_position, t) ==
  LET v == r.spd
      k == RCeil(RDiv(RAdd(RSub(RDiv(RMul(v, t), I(3)), end_position), r.pos),
                      r.m_length))
      j == RDiv(RMul(I(6), RAdd(RSub(RSub(r.pos, end_position),
                                     RMul(k, r.m_length)),
                                RDiv(RMul(v, t), I(2)))),
                RMul(RMul(t, t), t))
      a == RSub(RDiv(RNeg(v), t), RDiv(RMul(j, t), I(2)))
  IN [r EXCEPT !.jrk = j, !.acc = a, !.m_min_speed = Zero,
               !.m_max_speed = infinity, !.m_state = had_impact]

\* a variant that rounds the number of rotations down
stop_in_rounding_down(r, end_position, t) ==
  LET v == r.spd
      k == RFloor(RDiv(RAdd(RSub(RDiv(RMul(v, t), I(3)), end_position), r.pos),
                       r.m_length))
      j == RDiv(RMul(I(12), RAdd(RSub(RSub(r.pos, end_position),
                                      RMul(k, r.m_length)),
                                 RDiv(RMul(v, t), I(2)))),
                RMul(RMul(t, t), t))
      a == RSub(RDiv(RNeg(v), t), RDiv(RMul(j, t), I(2)))
  IN [r EXCEPT !.jrk = j, !.acc = a, !.m_min_speed = Zero,
               !.m_max_speed = infinity, !.m_state = had_impact]

stop_in(r, end_position, t) ==
  LET v == r.spd
      s0 == r.pos
      s1 == end_position
      l == r.m_length
      k == RCeil(RDiv(RAdd(RDiv(RMul(v, t), I(3)), RSub(s0, s1)), l))
      j == RDiv(RMul(I(12), RAdd(RSub(RSub(s0, s1), RMul(k, l)),
                                 RDiv(RMul(v, t), I(2)))),
                RMul(t, RMul(t, t)))
      a == RSub(RDiv(RNeg(v), t), RDiv(RMul(j, t), I(2)))
  IN [r EXCEPT !.jrk = j, !.acc = a,
               !.m_min_speed = Zero, !.m_max_speed = infinity,
               !.m_state = had_impact]

\* a variant that restores the whole configured corridor
go_full_speed_in_restoring(r, time) ==
  [r EXCEPT !.m_min_speed = r.m_min_speed_proxy,
            !.m_max_speed = r.m_max_speed_proxy,
            !.acc = nccry_acc_to_speed([acc |-> r.acc, spd |-> r.spd, pos |-> r.pos],
                                       r.m_max_speed_proxy, time),
            !.m_state = had_impact]

go_full_speed_in(r, time) ==
  LET r1 == [r EXCEPT !.m_max_speed = r.m_max_speed_proxy]
      accm == [acc |-> r1.acc, spd |-> r1.spd, pos |-> r1.pos]
      new_acc == nccry_acc_to_speed(accm, r1.m_max_speed, time)
  IN [r1 EXCEPT !.acc = new_acc, !.m_state = had_impact]

slow_to_minimal_in(r, time) ==
  LET r1 == [r EXCEPT !.m_min_speed = r.m_min_speed_proxy]
      accm == [acc |-> r1.acc, spd |-> r1.spd, pos |-> r1.pos]
      new_acc == nccry_acc_to_speed(accm, r1.m_min_speed, time)
  IN [r1 EXCEPT !.acc = new_acc]

set_min_speed(r, speed) == [r EXCEPT !.m_min_speed_proxy = speed]
set_max_speed(r, speed) == [r EXCEPT !.m_max_speed_proxy = speed]

full_stop(r) ==
  [r EXCEPT !.spd = Zero, !.acc = Zero, !.jrk = Zero,
            !.pos = RRound(r.pos), !.m_state = rest]

\* full_stop when the corridor has closed
StopIfClosed(a) ==
  IF RLe(a.m_max_speed, Zero)   \* ? may be rounding error
  THEN full_stop(a) ELSE a

\* case State::moving of ReelMotion::advance
MovingAdvance(r, dt, stop_time) ==
  IF RLe(stop_time, dt)
  THEN full_stop(SpeedLimitedMotion_advance(jerked, r, stop_time))
  ELSE StopIfClosed(SpeedLimitedMotion_advance(jerked, r, dt))

\* ReelMotion::advance
ReelMotion_advance(r, dt) ==
  IF dt = Zero THEN r
  ELSE WrapPosition(
         IF r.m_state = had_impact
         THEN [SpeedLimitedMotion_advance(jerked, r, dt) EXCEPT !.m_state = moving]
         ELSE IF r.m_state = moving
         THEN MovingAdvance(r, dt, time_to_speed(jerked, r, Zero).t)
         ELSE r)

\* the square roots taken by ReelMotion::advance are numbers of the model
ExactReelAdvance(r, dt) ==
  IF dt = Zero \/ r.m_state = rest THEN TRUE
  ELSE /\ ExactAdvance(jerked, r)
       /\ IF r.m_state = moving THEN ExactTimeToSpeed(jerked, r, Zero) ELSE TRUE

(***************************************************************************)
(* Game (src/src/game.cpp): the state machine, the two buttons and the     *)
(* list of timer events.  A time is a whole number of half seconds.  The   *)
(* reels, the score counter and the drawing of the scene are left out.     *)
(***************************************************************************)
g_min_speed_up_time == 6
g_min_spin_time == g_min_speed_up_time
g_max_spin_time == g_min_spin_time + 6
g_min_stop_time == 6
g_max_stop_time == 12
g_result_show_time == 4
g_auto_spin_delay == 1

\* enum class Game::Event
Events ==
  {"start_pressed", "stop_pressed", "enable_stop_timer", "spin_time_out",
   "reels_stopped", "show_result_time_out"}

\* the classes of Game::State
GameStates ==
  {"IdleState", "SpeedUpState", "StopWaitState", "SlowingDownState",
   "ResultState"}

Row(s) == [k \in Idx |-> s[k + 1]]

\* the result of Combination(row).get_result(), for a row on which
\* get_result stays in bounds
ResultOf(c) == MakeResult(c.r, c.r.dominant)
RangesOf(gr) == [buf |-> gr.buf, n |-> gr.n, oob |-> FALSE, wild |-> FALSE]
GameResult(row) == ResultOf(get_result_core(row, RangesOf(get_ranges(row))))

\* Game::add_timer_event
add_timer_event(g, time, e) ==
  [g EXCEPT !.m_timer_events = Append(@, [event |-> e, left |-> time])]

\* IdleState::IdleState
IdleState(g) ==
  [g EXCEPT !.m_state = "IdleState", !.start_btn = TRUE, !.stop_btn = FALSE]

\* SpeedUpState::SpeedUpState
SpeedUpState(g) ==
  add_timer_event([g EXCEPT !.m_state = "SpeedUpState", !.start_btn = FALSE],
                  g_min_spin_time, "enable_stop_timer")

\* StopWaitState::StopWaitState
StopWaitState(g) ==
  add_timer_event([g EXCEPT !.m_state = "StopWaitState", !.stop_btn = TRUE],
                  g_max_spin_time - g_min_spin_time, "spin_time_out")

\* a variant that leaves the stop button as it was
SlowingDownKeepsStop(g, stop_row, period) ==
  add_timer_event([g EXCEPT !.m_state = "SlowingDownState",
                            !.m_stop_row = stop_row],
                  period, "reels_stopped")

\* SlowingDownState::SlowingDownState: stop_row the symbols drawn, period
\* the value of last_stop_in, which starts uninitialized
SlowingDownState(g, stop_row, period) ==
  add_timer_event([g EXCEPT !.m_state = "SlowingDownState",
                            !.stop_btn = FALSE, !.m_stop_row = stop_row],
                  period, "reels_stopped")

\* ResultState::ResultState, res the result of the combination of stop_row
ResultShown(g, stop_row, res) ==
  add_timer_event([g EXCEPT !.m_state = "ResultState",
                            !.m_stop_row = stop_row,
                            !.m_auto_spin = res.free_speen],
                  IF res.free_speen THEN g_auto_spin_delay
                  ELSE g_result_show_time,
                  "show_result_time_out")

ResultState(g, stop_row) == ResultShown(g, stop_row, GameResult(stop_row))

\* a next that knows no event
NoNext(g, e, row, period) == g

\* State::next of the state of g, and Game::handle_event: the game with
\* the state constructed, or g where next returns no state.  row: what
\* get_symbol_row reads or SlowingDownState draws; period: the stop time.
IdleState_next(g, e, row, period) ==
  IF e = "reels_stopped" THEN ResultState(g, row)
  ELSE IF e = "start_pressed" THEN SpeedUpState(g)
  ELSE g

SpeedUpState_next(g, e, row, period) ==
  IF e = "enable_stop_timer" THEN StopWaitState(g) ELSE g

StopWaitState_next(g, e, row, period) ==
  IF e \in {"spin_time_out", "stop_pressed"}
  THEN SlowingDownState(g, row, period)
  ELSE g

SlowingDownState_next(g, e, row, period) ==
  IF e = "reels_stopped" THEN ResultState(g, g.m_stop_row) ELSE g

ResultState_next(g, e, row, period) ==
  IF e = "show_result_time_out"
  THEN (IF g.m_auto_spin THEN SpeedUpState(g) ELSE IdleState(g))
  ELSE g

handle_event(g, e, row, period) ==
  IF g.m_state = "IdleState" THEN IdleState_next(g, e, row, period)
  ELSE IF g.m_state = "SpeedUpState" THEN SpeedUpState_next(g, e, row, period)
  ELSE IF g.m_state = "StopWaitState" THEN StopWaitState_next(g, e, row, period)
  ELSE IF g.m_state = "SlowingDownState"
  THEN SlowingDownState_next(g, e, row, period)
  ELSE ResultState_next(g, e, row, period)

\* a call of handle_event and the record of it: st = [g, trail]
Delivered(st, e, g2) ==
  [g |-> g2,
   trail |-> Append(st.trail, [event |-> e, from |-> st.g.m_state,
                               auto |-> st.g.m_auto_spin,
                               to |-> g2.m_state,
                               kept |-> g2 = st.g])]

Deliver(st, e, row, period) ==
  Delivered(st, e, handle_event(st.g, e, row, period))

\* std::list::erase of the i-th timer event
EraseTimer(st, i) ==
  [st EXCEPT !.g.m_timer_events =
     SubSeq(@, 1, i - 1) \o SubSeq(@, i + 1, Len(@))]

\* Game::check_timers, from the i-th timer event on
RECURSIVE check_timers(_, _, _, _)
check_timers(st, i, row, period) ==
  IF i > Len(st.g.m_timer_events) THEN st
  ELSE IF st.g.m_timer_events[i].left <= 0
  THEN check_timers(
         EraseTimer(Deliver(st, st.g.m_timer_events[i].event, row, period), i),
         i, row, period)
  ELSE check_timers(st, i + 1, row, period)

\* the timer events after the time dt has passed
Elapse(g, dt) ==
  [g EXCEPT !.m_timer_events =
     [k \in 1 .. Len(@) |-> [@[k] EXCEPT !.left = Max(0, @ - dt)]]]

\* Button::handle_event of a mouse button released over the button, whose
\* handler calls handle_event(e): nothing when the button is disabled
Button_handle_event(st, enabled, e, row, period) ==
  IF ~enabled THEN st ELSE Deliver(st, e, row, period)

\* Game::set_symbol_row, in half seconds: the reels are told to stop on the
\* row within 1 s
set_symbol_row(g) ==
  add_timer_event(IdleState([g EXCEPT !.m_timer_events = <<>>]),
                  2, "reels_stopped")

\* Game::Game
NewGame ==
  IdleState([m_state |-> "IdleState", start_btn |-> TRUE, stop_btn |-> TRUE,
             m_timer_events |-> <<>>,
             m_stop_row |-> [k \in Idx |-> lucky_seven],
             m_auto_spin |-> FALSE])

(***************************************************************************)
(* State.                                                                  *)
(***************************************************************************)
VARIABLES
  m_row,      \* Combination::m_row
  m_ranges,   \* Combination::m_ranges: [buf, n]
  calls,      \* number of get_result calls made on the object
  out,        \* outcome of the last get_result call
  reel,       \* a ReelMotion
  nplan,      \* planning calls made on reel
  nconf,      \* configuration calls made on reel
  nstep,      \* advance calls made on reel since the last planning call
  plan,       \* the last planning call on reel and the time advanced since
  last,       \* the last operation on reel
  bm,         \* a SpeedLimitedMotion<jerked>
  bm_before,  \* bm before the last advance
  bm_dt,      \* the step of the last advance of bm
  bm_steps,   \* advance calls made on bm
  km,         \* a Motion<MT>: its order, its components at construction
              \* and now, the time advanced and the advance calls made
  tts,        \* the last time_to_speed call on km and its result
  quad,       \* the last quad_equation call and its result
  ndebug,     \* the build defines NDEBUG
  game,       \* a Game: its state, buttons and timer events
  handled     \* the handle_event calls of the last step on game

cvars == <<m_row, m_ranges, calls, out>>
rvars == <<reel, nplan, nconf, nstep, plan, last>>
bvars == <<bm, bm_before, bm_dt, bm_steps>>
kvars == <<km, tts, quad>>
gvars == <<ndebug, game, handled>>
vars == <<m_row, m_ranges, calls, out, reel, nplan, nconf, nstep, plan, last,
          bm, bm_before, bm_dt, bm_steps, km, tts, quad, ndebug, game,
          handled>>

(***************************************************************************)
(* Bounds and input sets.                                                  *)
(***************************************************************************)
MaxCalls == 1
MaxRepeats == 1
MaxPlans == 2
MaxConfs == 1
MaxSteps == 3
MaxBMSteps == 2
MaxKMSteps == 2
MaxTimers == 3
MaxMagnitude == 256

\* the numbers the model computes with: infinities, NaN, and the
\* fractions whose numerator and denominator stay below MaxMagnitude
InRange(x) == x[2] = 0 \/ (Abs(x[1]) <= MaxMagnitude /\ x[2] <= MaxMagnitude)

MotionInRange(m) ==
  InRange(m.pos) /\ InRange(m.spd) /\ InRange(m.acc) /\ InRange(m.jrk)

\* the special symbols, two fruits and a suit
RepeatSymbols == {lucky_seven, cross, respin, question, apple, carrot, spade}

Lengths == {I(4), Q(5, 2)}
Targets(r) == {t \in {Zero, I(1), Q(3, 2), r.m_length} : RLe(t, r.m_length)}
Times == {I(2), I(4)}
Dts == {Zero, I(1), I(2)}
SpeedVals == {I(1), I(3)}
Floors == {Zero, I(1)}
Ceilings == {Zero, I(3)}

BreachTimes == {Zero, I(2)}
BreachTargets == {I(1), I(5)}

BMSpeeds == {Zero, I(1), I(2), I(3)}
BMAccs == {I(-2), I(-1), Zero, I(1), I(2)}
BMJerks == {I(-2), Zero, I(2)}
BMMins == {Zero, I(1)}
BMMaxs == {I(2), infinity}
BMDts == {Zero, I(1), I(2)}

KMOrders == {stationary, uniform, accelerated, jerked}
KMSpeeds == {Zero, I(1), I(2)}
KMAccs == {I(-2), Zero, I(1)}
KMJerks == {I(-2), Zero, I(2)}
KMDts == {Zero, Q(1, 2), I(1), I(2)}
KMTargets == {I(-1), Zero, I(1), I(2)}
Setters == {"set_speed", "set_acceleration", "set_jerk"}
KMSetValues == {I(-1), I(2)}
Coefficients == {I(-2), I(-1), Zero, Q(1, 2), I(1), I(2)}

(***************************************************************************)
(* The combination resolver: one Combination object per row.               *)
(***************************************************************************)
NoResult == [combo_range |-> Range(0, 0), points |-> 0, free_speen |-> FALSE]

NoOutcome == [status |-> "none", res |-> NoResult, dominant |-> lucky_seven,
              oob |-> FALSE, rowoob |-> FALSE]

\* Combination::Combination(row)
CombInit ==
  /\ m_row \in [Idx -> Symbols]
  /\ \E g \in {get_ranges(m_row)} : m_ranges = g
  /\ calls = 0
  /\ out = NoOutcome

CombIdle ==
  /\ m_row = [k \in Idx |-> lucky_seven]
  /\ m_ranges = [buf |-> [k \in Idx |-> Range(0, g_nreels)], n |-> 1]
  /\ calls = 0
  /\ out = NoOutcome

\* Combination::get_result().  An out-of-bounds access is undefined
\* behaviour: a build with checked element access aborts at it; an
\* unchecked build reads the stale slot of the vector's allocation, and
\* whatever the word after m_row holds as the dominant symbol.
GetResultCall(limit) ==
  /\ calls < limit
  /\ out.status # "aborted"
  /\ calls' = calls + 1
  /\ UNCHANGED <<m_row, rvars, bvars, kvars, gvars>>
  /\ \E c \in {get_result_core(m_row, [buf |-> m_ranges.buf, n |-> m_ranges.n,
                                      oob |-> FALSE, wild |-> FALSE])} :
        /\ m_ranges' = [buf |-> c.ranges.buf, n |-> c.ranges.n]
        /\ \/ /\ ~c.flags.wild
              /\ \E d \in (IF c.r.rowoob THEN Symbols ELSE {c.r.dominant}) :
                   out' = [status |-> "returned", res |-> MakeResult(c.r, d),
                           dominant |-> d,
                           oob |-> c.flags.oob, rowoob |-> c.r.rowoob]
           \/ /\ c.flags.oob \/ c.flags.wild \/ c.r.rowoob
              /\ out' = [status |-> "aborted", res |-> NoResult,
                         dominant |-> lucky_seven,
                         oob |-> c.flags.oob \/ c.flags.wild, rowoob |-> c.r.rowoob]

\* the first call of get_result on a Combination
GetResult == GetResultCall(MaxCalls)

\* get_result called on the same Combination once more
GetResultAgain == GetResultCall(MaxCalls + MaxRepeats)

\* Combination(row) for the rows over RepeatSymbols
AgainInit ==
  /\ m_row \in [Idx -> RepeatSymbols]
  /\ \E g \in {get_ranges(m_row)} : m_ranges = g
  /\ calls = 0
  /\ out = NoOutcome

(***************************************************************************)
(* The reel controller.                                                    *)
(***************************************************************************)
NoPlan == [op |-> "none", from |-> rest, spd0 |-> Zero, jrk0 |-> Zero,
           target |-> Zero, time |-> Zero,
           elapsed |-> Zero, steps |-> 0, nonneg |-> TRUE, met |-> FALSE]

ReelInit ==
  /\ \E l \in Lengths : reel = ReelMotion(l)
  /\ nplan = 0 /\ nconf = 0 /\ nstep = 0
  /\ plan = NoPlan
  /\ last = [op |-> "ReelMotion", arg |-> Zero]

ReelIdle ==
  /\ reel = ReelMotion(I(4))
  /\ nplan = 0 /\ nconf = 0 /\ nstep = 0
  /\ plan = NoPlan
  /\ last = [op |-> "ReelMotion", arg |-> Zero]

\* the process has not been ended by a failed assert
Running == last.op # "abort"

Planned(op, target, time) ==
  /\ Running
  /\ nplan < MaxPlans
  /\ MotionInRange(reel)
  /\ nplan' = nplan + 1
  /\ nstep' = 0
  /\ plan' = [op |-> op, from |-> reel.m_state, spd0 |-> reel.spd,
              jrk0 |-> reel.jrk, target |-> target, time |-> time,
              elapsed |-> Zero, steps |-> 0, nonneg |-> TRUE, met |-> FALSE]
  /\ last' = [op |-> op, arg |-> time]
  /\ UNCHANGED <<nconf, cvars, bvars, kvars, gvars>>

Configured(op, arg) ==
  /\ Running
  /\ nconf < MaxConfs
  /\ nconf' = nconf + 1
  /\ plan' = NoPlan
  /\ last' = [op |-> op, arg |-> arg]
  /\ UNCHANGED <<nplan, nstep, cvars, bvars, kvars, gvars>>

\* stop_in(end_position, t); the asserts are the caller's contract
StopIn ==
  \E t \in Times : \E target \in Targets(reel) :
    /\ t # Zero /\ RLe(target, reel.m_length)
    /\ Planned("stop_in", target, t)
    /\ reel' = stop_in(reel, target, t)

\* a variant in which no assert stops a call
Unchecked(nd, cond) == TRUE

\* assert(cond): the call goes on when cond holds, or when the build
\* defines NDEBUG and the assert expands to nothing
Checked(nd, cond) == nd \/ cond

\* stop_in(end_position, t) by a caller that breaks the contract: the
\* failed assert ends the process before the first statement of the body
StopInBreach ==
  \E t \in BreachTimes : \E target \in BreachTargets :
    /\ ~(t # Zero /\ RLe(target, reel.m_length))
    /\ Running
    /\ nplan < MaxPlans
    /\ IF Checked(ndebug, t # Zero /\ RLe(target, reel.m_length))
       THEN /\ Planned("stop_in", target, t)
            /\ reel' = stop_in(reel, target, t)
       ELSE /\ last' = [op |-> "abort", arg |-> t]
            /\ UNCHANGED <<reel, nplan, nconf, nstep, plan, cvars, bvars,
                           kvars, gvars>>

GoFullSpeedIn ==
  \E t \in Times :
    /\ Planned("go_full_speed_in", reel.m_max_speed_proxy, t)
    /\ reel' = go_full_speed_in(reel, t)

SlowToMinimalIn ==
  \E t \in Times :
    /\ Planned("slow_to_minimal_in", reel.m_min_speed_proxy, t)
    /\ reel' = slow_to_minimal_in(reel, t)

SetMinSpeed ==
  \E v \in SpeedVals :
    /\ reel' = set_min_speed(reel, v)
    /\ Configured("set_min_speed", v)

SetMaxSpeed ==
  \E v \in SpeedVals :
    /\ reel' = set_max_speed(reel, v)
    /\ Configured("set_max_speed", v)

SetReelLength ==
  \E l \in Lengths :
    /\ reel' = set_reel_length(reel, l)
    /\ Configured("set_reel_length", l)

Advance ==
  \E dt \in Dts :
    /\ Running
    /\ nstep < MaxSteps
    /\ MotionInRange(reel)
    /\ ExactReelAdvance(reel, dt)
    /\ \E r \in {ReelMotion_advance(reel, dt)} :
         /\ reel' = r
         /\ plan' = [plan EXCEPT !.elapsed = RAdd(plan.elapsed, dt),
                                 !.steps = IF dt = Zero THEN @ ELSE @ + 1,
                                 !.nonneg = @ /\ RGe(r.spd, Zero),
                                 !.met = @ \/ RAdd(plan.elapsed, dt) = plan.time]
    /\ nstep' = nstep + 1
    /\ last' = [op |-> "advance", arg |-> dt]
    /\ UNCHANGED <<nplan, nconf, cvars, bvars, kvars, gvars>>

(***************************************************************************)
(* A SpeedLimitedMotion<jerked> on its own.                                *)
(***************************************************************************)
BMInit ==
  /\ bm \in [pos : {Zero}, spd : BMSpeeds, acc : BMAccs, jrk : BMJerks,
             m_min_speed : BMMins, m_max_speed : BMMaxs]
  /\ bm_before = bm
  /\ bm_dt = Zero
  /\ bm_steps = 0

BMIdle ==
  /\ bm = [pos |-> Zero, spd |-> Zero, acc |-> Zero, jrk |-> Zero,
           m_min_speed |-> Zero, m_max_speed |-> Zero]
  /\ bm_before = bm
  /\ bm_dt = Zero
  /\ bm_steps = 0

BMAdvance ==
  \E dt \in BMDts :
    /\ bm_steps < MaxBMSteps
    /\ MotionInRange(bm)
    /\ ExactAdvance(jerked, bm)
    /\ \E b \in {SpeedLimitedMotion_advance(jerked, bm, dt)} : bm' = b
    /\ bm_before' = bm
    /\ bm_dt' = dt
    /\ bm_steps' = bm_steps + 1
    /\ UNCHANGED <<cvars, rvars, kvars, gvars>>

(***************************************************************************)
(* A Motion<MT> of each order on its own, and quad_equation on its own.    *)
(***************************************************************************)
NoTime == [asked |-> FALSE, v1 |-> Zero, t |-> Zero, second |-> Zero]

NoRoots == [asked |-> FALSE, a |-> Zero, b |-> Zero, c |-> Zero,
            roots |-> <<NAN, NAN>>]

\* Motion<MT>(cmp): the components above the order are not stored
Motion(MT, spd, acc, jrk) ==
  [pos |-> Zero,
   spd |-> IF MT >= uniform THEN spd ELSE Zero,
   acc |-> IF MT >= accelerated THEN acc ELSE Zero,
   jrk |-> IF MT >= jerked THEN jrk ELSE Zero]

KMInit ==
  /\ \E MT \in KMOrders, spd \in KMSpeeds, acc \in KMAccs, jrk \in KMJerks :
       km = [MT |-> MT, m0 |-> Motion(MT, spd, acc, jrk),
             m |-> Motion(MT, spd, acc, jrk), total |-> Zero, steps |-> 0,
             op |-> "Motion", above |-> FALSE]
  /\ tts = NoTime

KMIdle ==
  /\ km = [MT |-> stationary, m0 |-> Motion(stationary, Zero, Zero, Zero),
           m |-> Motion(stationary, Zero, Zero, Zero), total |-> Zero,
           steps |-> 0, op |-> "Motion", above |-> FALSE]
  /\ tts = NoTime

QuadInit ==
  \E a \in Coefficients, b \in Coefficients, c \in Coefficients :
    quad = [asked |-> FALSE, a |-> a, b |-> b, c |-> c, roots |-> <<NAN, NAN>>]

QuadIdle == quad = NoRoots

\* Motion::advance(dt)
KMAdvance ==
  \E dt \in KMDts :
    /\ km.steps < MaxKMSteps
    /\ ~tts.asked
    /\ MotionInRange(km.m)
    /\ km' = [km EXCEPT !.m = Motion_advance(km.MT, km.m, dt),
                        !.total = RAdd(km.total, dt),
                        !.steps = @ + 1,
                        !.op = "advance"]
    /\ UNCHANGED <<tts, quad, cvars, rvars, bvars, gvars>>

\* the order a setter needs for its component to be stored
OrderOf(setter) ==
  IF setter = "set_speed" THEN uniform
  ELSE IF setter = "set_acceleration" THEN accelerated
  ELSE jerked

\* a setter that stores its component whatever the order
set_any(MT, m, setter, v) ==
  IF setter = "set_speed" THEN [m EXCEPT !.spd = v]
  ELSE IF setter = "set_acceleration" THEN [m EXCEPT !.acc = v]
  ELSE [m EXCEPT !.jrk = v]

\* Motion::set_speed, set_acceleration or set_jerk, by name
set_component(MT, m, setter, v) ==
  IF setter = "set_speed" THEN set_speed(MT, m, v)
  ELSE IF setter = "set_acceleration" THEN set_acceleration(MT, m, v)
  ELSE set_jerk(MT, m, v)

\* Motion::set_speed(v), set_acceleration(v) or set_jerk(v); the motion
\* is followed from the new components on
KMSet ==
  \E setter \in Setters : \E v \in KMSetValues :
    /\ km.steps < MaxKMSteps
    /\ ~tts.asked
    /\ \E n \in {set_component(km.MT, km.m, setter, v)} :
         km' = [km EXCEPT !.m = n, !.m0 = n, !.total = Zero,
                          !.steps = @ + 1,
                          !.op = setter,
                          !.above = IF km.MT >= OrderOf(setter) THEN @ ELSE TRUE]
    /\ UNCHANGED <<tts, quad, cvars, rvars, bvars, gvars>>

\* Motion::time_to_speed(v1, &second)
KMTimeToSpeed ==
  \E v1 \in KMTargets :
    /\ ~tts.asked
    /\ MotionInRange(km.m)
    /\ ExactTimeToSpeed(km.MT, km.m, v1)
    /\ \E r \in {time_to_speed(km.MT, km.m, v1)} :
         tts' = [asked |-> TRUE, v1 |-> v1, t |-> r.t, second |-> r.second]
    /\ UNCHANGED <<km, quad, cvars, rvars, bvars, gvars>>

\* quad_equation(a, b, c)
QuadEquation ==
  /\ ~quad.asked
  /\ quad.a # Zero => HasExactSqrt(Discriminant(quad.a, quad.b, quad.c))
  /\ quad' = [quad EXCEPT !.asked = TRUE,
                          !.roots = quad_equation(quad.a, quad.b, quad.c)]
  /\ UNCHANGED <<km, tts, cvars, rvars, bvars, gvars>>

(***************************************************************************)
(* The game.                                                               *)
(***************************************************************************)
\* the rows the reels stop on: each stays in bounds in get_result; a weak
\* one, a winning one and one that grants a free spin
GameRows ==
  {Row(<<lucky_seven, cross, apple, spade, amethyst>>),
   Row(<<apple, apple, apple, grape, grape>>),
   Row(<<respin, respin, respin, apple, spade>>)}

\* the time of the reels_stopped timer: last_stop_in is the largest of the
\* stop times drawn from [g_min_stop_time, g_max_stop_time] and of the
\* uninitialized value it starts with, which can be any float; one too
\* large for the clock gives a timer that may have expired already
StopPeriods == {0, g_min_stop_time, g_max_stop_time, 2 * g_max_stop_time}

GameDts == {1, 6}

\* the draws a step can use: a row is read only by a state constructed
\* from IdleState or StopWaitState, a stop time only from StopWaitState,
\* and one step leaves at most one state behind before it gets there
RowDraws(g) ==
  IF g.m_state \in {"IdleState", "SpeedUpState", "StopWaitState"}
  THEN GameRows ELSE {g.m_stop_row}

PeriodDraws(g) ==
  IF g.m_state \in {"SpeedUpState", "StopWaitState"}
  THEN StopPeriods ELSE {g_min_stop_time}

GameInit == game = NewGame /\ handled = <<>>

GameIdle == ndebug = FALSE /\ GameInit

\* Game::update(dt) after the time dt
Update ==
  \E dt \in GameDts : \E row \in RowDraws(game) : \E period \in PeriodDraws(game) :
    /\ \E st \in {check_timers([g |-> Elapse(game, dt), trail |-> <<>>], 1,
                                row, period)} :
         game' = st.g /\ handled' = st.trail
    /\ UNCHANGED <<ndebug, cvars, rvars, bvars, kvars>>

\* Game::process_input of a mouse button released over the start button
ClickStart ==
  \E row \in RowDraws(game) : \E period \in PeriodDraws(game) :
    /\ \E st \in {Button_handle_event([g |-> game, trail |-> <<>>],
                                        game.start_btn, "start_pressed",
                                        row, period)} :
         game' = st.g /\ handled' = st.trail
    /\ UNCHANGED <<ndebug, cvars, rvars, bvars, kvars>>

\* Game::process_input of a mouse button released over the stop button
ClickStop ==
  \E row \in RowDraws(game) : \E period \in PeriodDraws(game) :
    /\ \E st \in {Button_handle_event([g |-> game, trail |-> <<>>],
                                        game.stop_btn, "stop_pressed",
                                        row, period)} :
         game' = st.g /\ handled' = st.trail
    /\ UNCHANGED <<ndebug, cvars, rvars, bvars, kvars>>

\* Game::handle_event(e), for any event in any state
HandleEvent ==
  \E e \in Events : \E row \in RowDraws(game) : \E period \in PeriodDraws(game) :
    /\ Len(game.m_timer_events) < MaxTimers
    /\ \E st \in {Deliver([g |-> game, trail |-> <<>>], e, row, period)} :
         game' = st.g /\ handled' = st.trail
    /\ UNCHANGED <<ndebug, cvars, rvars, bvars, kvars>>

\* Game::set_symbol_row(row), the entry kept for tests
SetSymbolRow ==
  /\ game' = set_symbol_row(game)
  /\ handled' = <<>>
  /\ UNCHANGED <<ndebug, cvars, rvars, bvars, kvars>>

(***************************************************************************)
(* Specifications.                                                         *)
(***************************************************************************)
Init == ReelInit /\ CombIdle /\ BMIdle /\ KMIdle /\ QuadIdle /\ GameIdle

Next ==
  \/ StopIn
  \/ GoFullSpeedIn
  \/ SlowToMinimalIn
  \/ SetMinSpeed
  \/ SetMaxSpeed
  \/ SetReelLength
  \/ Advance

Spec == Init /\ [][Next]_vars

InitComb == CombInit /\ ReelIdle /\ BMIdle /\ KMIdle /\ QuadIdle /\ GameIdle

NextComb == GetResult

SpecComb == InitComb /\ [][NextComb]_vars

\* a Combination whose get_result is called twice
InitAgain == AgainInit /\ ReelIdle /\ BMIdle /\ KMIdle /\ QuadIdle /\ GameIdle

NextAgain == GetResultAgain

SpecAgain == InitAgain /\ [][NextAgain]_vars

InitBM == BMInit /\ ReelIdle /\ CombIdle /\ KMIdle /\ QuadIdle /\ GameIdle

NextBM == BMAdvance

SpecBM == InitBM /\ [][NextBM]_vars

\* a controller whose floor and ceiling were set after construction
RampInit ==
  /\ \E lo \in Floors, hi \in Ceilings :
       reel = set_max_speed(set_min_speed(ReelMotion(I(4)), lo), hi)
  /\ nplan = 0 /\ nconf = 0 /\ nstep = 0
  /\ plan = NoPlan
  /\ last = [op |-> "set_max_speed", arg |-> reel.m_max_speed_proxy]

InitRamp == RampInit /\ CombIdle /\ BMIdle /\ KMIdle /\ QuadIdle /\ GameIdle

NextRamp == StopIn \/ GoFullSpeedIn \/ SlowToMinimalIn \/ Advance

SpecRamp == InitRamp /\ [][NextRamp]_vars

\* a controller with the floor 1 and the ceiling 3, and its floor or
\* ceiling set again on the way
FrameInit ==
  /\ reel = set_max_speed(set_min_speed(ReelMotion(I(4)), I(1)), I(3))
  /\ nplan = 0 /\ nconf = 0 /\ nstep = 0
  /\ plan = NoPlan
  /\ last = [op |-> "set_max_speed", arg |-> I(3)]

InitFrame == FrameInit /\ CombIdle /\ BMIdle /\ KMIdle /\ QuadIdle /\ GameIdle

NextFrame ==
  \/ StopIn
  \/ GoFullSpeedIn
  \/ SlowToMinimalIn
  \/ SetMinSpeed
  \/ SetMaxSpeed
  \/ Advance

SpecFrame == InitFrame /\ [][NextFrame]_vars

InitKin == KMInit /\ QuadIdle /\ ReelIdle /\ CombIdle /\ BMIdle /\ GameIdle

NextKin == KMAdvance \/ KMTimeToSpeed

SpecKin == InitKin /\ [][NextKin]_vars

\* a motion of each order whose components are set and that is advanced
NextOrder == KMSet \/ KMAdvance

SpecOrder == InitKin /\ [][NextOrder]_vars

InitQuad == QuadInit /\ KMIdle /\ ReelIdle /\ CombIdle /\ BMIdle /\ GameIdle

NextQuad == QuadEquation

SpecQuad == InitQuad /\ [][NextQuad]_vars

\* a controller in a build with or without NDEBUG, and callers that break
\* the contract of stop_in
InitContract ==
  /\ RampInit /\ CombIdle /\ BMIdle /\ KMIdle /\ QuadIdle
  /\ ndebug \in BOOLEAN /\ GameInit

NextContract == StopInBreach \/ StopIn \/ GoFullSpeedIn \/ Advance

SpecContract == InitContract /\ [][NextContract]_vars

InitGame ==
  /\ ReelIdle /\ CombIdle /\ BMIdle /\ KMIdle /\ QuadIdle /\ GameIdle

NextGame == Update \/ ClickStart \/ ClickStop

SpecGame == InitGame /\ [][NextGame]_vars

\* the game with handle_event called on any event in any state, and with
\* the entry kept for tests
NextFsm == HandleEvent \/ Update \/ SetSymbolRow

SpecFsm == InitGame /\ [][NextFsm]_vars

(***************************************************************************)
(* Properties of the motion classes.                                       *)
(***************************************************************************)
InCorridor(m) == RLe(m.m_min_speed, m.spd) /\ RLe(m.spd, m.m_max_speed)

\* fmod of a position into [0, length)
RMod(x, l) == RSub(x, RMul(RFloor(RDiv(x, l)), l))

LandingCase == plan.op = "stop_in" /\ plan.from = rest

Landed ==
  /\ reel.pos = RMod(plan.target, reel.m_length)
  /\ reel.spd = Zero

\* C2 as stated: stop_in(target, t) at Rest, any target in [0, length],
\* then advances summing to t: the position is target mod length, the speed
\* is 0, and no advance on the way left a negative speed.
C2_LandingAnyTarget ==
  LandingCase =>
    /\ RLe(plan.elapsed, plan.time) => plan.nonneg
    /\ plan.elapsed = plan.time => Landed

\* C2: stop_in(target, t) at Rest with target and reel length whole
\* numbers, then advances summing to t in one step or many: the position is
\* target mod length, the speed is 0, and no advance on the way left a
\* negative speed.
C2_ExactLanding ==
  (LandingCase /\ IsWhole(plan.target) /\ IsWhole(reel.m_length)) =>
    /\ RLe(plan.elapsed, plan.time) => plan.nonneg
    /\ plan.elapsed = plan.time => Landed

\* a landing in several steps on a whole target away from the start
C2_Witness ==
  /\ LandingCase
  /\ IsWhole(plan.target) /\ IsWhole(reel.m_length)
  /\ plan.target = I(1)
  /\ plan.elapsed = plan.time
  /\ plan.steps >= 2
  /\ Landed
  /\ reel.m_state = rest

\* C3: in every reachable state of a ReelMotion in state rest, speed,
\* acceleration and jerk are 0 and the position is a whole number.
C3_RestInvariant ==
  reel.m_state = rest =>
    /\ reel.spd = Zero /\ reel.acc = Zero /\ reel.jrk = Zero
    /\ IsWhole(reel.pos)

\* C4: after every ReelMotion::advance and every set_reel_length,
\* 0 <= position < m_length.
C4_PositionInvariant ==
  last.op \in {"advance", "set_reel_length"} =>
    RLe(Zero, reel.pos) /\ RLt(reel.pos, reel.m_length)

\* an advance that stopped the reel at its full length and wrapped to 0
C4_Witness ==
  /\ last.op = "advance"
  /\ reel.m_state = rest
  /\ plan.op = "stop_in" /\ plan.target = reel.m_length
  /\ plan.elapsed = plan.time
  /\ reel.pos = Zero

(***************************************************************************)
(* Properties of the combination resolver, on the first get_result call of *)
(* a Combination.                                                          *)
(***************************************************************************)
FirstCall == calls = 1

\* the weak-combination cutoff, (g_nreels + 1) / 2
WinSize == (g_nreels + 1) \div 2

HasSymbol(sy) == \E i \in Idx : m_row[i] = sy

\* the symbols of the reported range
ComboSymbols ==
  {m_row[i] : i \in {j \in Idx : /\ j >= out.res.combo_range.begin
                                /\ j < out.res.combo_range.begin
                                       + out.res.combo_range.size}}

\* m_row[b .. b+k-1] is a maximal run of one symbol
IsRun(b, k) ==
  /\ b + k <= g_nreels
  /\ \A i \in b .. (b + k - 1) : m_row[i] = m_row[b]
  /\ (b = 0 \/ m_row[b - 1] # m_row[b])
  /\ (b + k = g_nreels \/ m_row[b + k] # m_row[b])

\* two symbols the family pass may join
SameFamily(x, y) ==
  get_symbol_family(x) = get_symbol_family(y) /\ get_symbol_family(x) # special

\* two different neighbours of one non-special family
FamilyNeighbours ==
  \E i \in 0 .. (g_nreels - 2) :
    m_row[i] # m_row[i + 1] /\ SameFamily(m_row[i], m_row[i + 1])

\* C5: get_result completes on every row, and reads no m_ranges[i] with
\* i >= m_ranges.size() and no m_row[i] with i >= 5.
C5_NoOutOfBounds ==
  calls >= 1 => (out.status = "returned" /\ ~out.oob /\ ~out.rowoob)

\* C6: no winning result has a range that holds a cross together with a
\* symbol that is neither a cross nor a wildcard (stated on the calls that
\* stay inside m_ranges and m_row).
C6_DisruptorBreaking ==
  (FirstCall /\ out.status = "returned" /\ ~out.oob /\ ~out.rowoob
     /\ out.res.points > 0) =>
    ~(cross \in ComboSymbols /\ ComboSymbols \ {cross, question} # {})

SimpleComboCase(b, k) ==
  /\ IsRun(b, k)
  /\ ~HasSymbol(question) /\ ~HasSymbol(cross)

SimpleComboResult(b, k) ==
  /\ out.status = "returned"
  /\ out.res.combo_range = Range(b, k)
  /\ out.dominant = m_row[b]
  /\ out.res.points = Pow(big_multiplier, k) * get_symbol_base_value(m_row[b])
  /\ out.res.points > 0
  /\ out.res.free_speen = (m_row[b] = respin)

\* C7 as stated: in a row with no wildcard and no cross whose longest run
\* has size k >= 3, the result wins, its range is that run, the multiplier
\* is that of the run alone, and free_speen holds only for respin.
C7_SimpleComboAnyRow ==
  FirstCall =>
    \A b \in Idx : \A k \in WinSize .. g_nreels :
      SimpleComboCase(b, k) => SimpleComboResult(b, k)

\* C7: in a row with no wildcard, no cross and no two different neighbours
\* of one non-special family, whose longest run has size k >= 3, the result
\* wins, its range is that run, the multiplier is that of the run alone,
\* and free_speen holds only for respin.
C7_SimpleCombo ==
  (FirstCall /\ ~FamilyNeighbours) =>
    \A b \in Idx : \A k \in WinSize .. g_nreels :
      SimpleComboCase(b, k) => SimpleComboResult(b, k)

\* [apple, apple, apple, spade, spade]: the apple run of size 3
C7_Witness ==
  /\ FirstCall
  /\ m_row = [i \in Idx |-> IF i < 3 THEN apple ELSE spade]
  /\ SimpleComboResult(0, 3)

\* first index of the run that ends at i, last index of the run from i
RunBegin(i) ==
  CHOOSE b \in 0 .. i :
    /\ \A j \in b .. i : m_row[j] = m_row[i]
    /\ (b = 0 \/ m_row[b - 1] # m_row[i])

RunEnd(i) ==
  CHOOSE e \in i .. (g_nreels - 1) :
    /\ \A j \in i .. e : m_row[j] = m_row[i]
    /\ (e = g_nreels - 1 \/ m_row[e + 1] # m_row[i])

\* m_row[b .. b+w-1] is a wildcard run with the same symbol on both sides
FlankedWildcards(b, w) ==
  /\ b >= 1 /\ b + w <= g_nreels - 1
  /\ m_row[b] = question
  /\ IsRun(b, w)
  /\ m_row[b - 1] = m_row[b + w]

\* the result is the left run, the wildcards and the right run, in the
\* name of the flanking symbol
AbsorbedResult(b, w) ==
  /\ out.status = "returned"
  /\ out.res.combo_range =
       Range(RunBegin(b - 1), RunEnd(b + w) + 1 - RunBegin(b - 1))
  /\ out.dominant = m_row[b - 1]
  /\ out.res.points > 0

\* C8 as stated: a wildcard run between two ranges of the same symbol is
\* reported merged with both, the flanking symbol as dominant symbol.
C8_AbsorptionAnyRow ==
  FirstCall =>
    \A b \in Idx : \A w \in 1 .. (g_nreels - 2) :
      FlankedWildcards(b, w) => AbsorbedResult(b, w)

\* C8: in a row with no cross, no wildcard outside the run and no two
\* different neighbours of one non-special family, a wildcard run between
\* two ranges of the same symbol is reported merged with both, the
\* flanking symbol as dominant symbol.
C8_WildcardAbsorption ==
  (FirstCall /\ ~HasSymbol(cross) /\ ~FamilyNeighbours) =>
    \A b \in Idx : \A w \in 1 .. (g_nreels - 2) :
      (/\ FlankedWildcards(b, w)
       /\ \A i \in Idx : m_row[i] = question => (i >= b /\ i < b + w))
        => AbsorbedResult(b, w)

\* [apple, question, apple, spade, spade]: apple-question-apple, size 3
C8_Witness ==
  /\ FirstCall
  /\ m_row = [i \in Idx |-> IF i = 1 THEN question
                            ELSE IF i < 3 THEN apple ELSE spade]
  /\ AbsorbedResult(1, 1)
  /\ out.res.combo_range = Range(0, 3)

\* two neighbours the passes may leave in one range
Alike(x, y) == x = y \/ SameFamily(x, y)

\* m_row[b .. b+k-1] is a maximal stretch of alike neighbours
IsBlock(b, k) ==
  /\ b + k <= g_nreels
  /\ \A i \in b .. (b + k - 2) : Alike(m_row[i], m_row[i + 1])
  /\ (b = 0 \/ ~Alike(m_row[b - 1], m_row[b]))
  /\ (b + k = g_nreels \/ ~Alike(m_row[b + k - 1], m_row[b + k]))

\* no stretch is larger, none of the same size lies further left
LargestBlock(b, k) ==
  \A b2 \in Idx : \A k2 \in 1 .. g_nreels :
    IsBlock(b2, k2) => (k2 < k \/ (k2 = k /\ b2 >= b))

\* a stretch of several ranges of one non-special family, no cross beside
FamilyStretch(b, k) ==
  /\ IsBlock(b, k)
  /\ get_symbol_family(m_row[b]) # special
  /\ \E i \in b .. (b + k - 2) : m_row[i] # m_row[i + 1]
  /\ (b = 0 \/ m_row[b - 1] # cross)
  /\ (b + k = g_nreels \/ m_row[b + k] # cross)

\* C9: in a row without wildcards, a maximal stretch of adjacent ranges of
\* one non-special family with no cross beside it is the reported range
\* when it is the largest stretch of the row (leftmost on ties), and it
\* wins when its size is at least 3.
C9_FamilyMerge ==
  (FirstCall /\ ~HasSymbol(question)) =>
    \A b \in Idx : \A k \in 2 .. g_nreels :
      (FamilyStretch(b, k) /\ LargestBlock(b, k)) =>
        /\ out.status = "returned"
        /\ out.res.combo_range = Range(b, k)
        /\ (k >= WinSize => out.res.points > 0)

\* [apple, carrot, corn, grape, diamond]: begin 0, size 4, 320 points
C9_Witness ==
  /\ FirstCall
  /\ m_row = [i \in Idx |-> IF i = 0 THEN apple ELSE IF i = 1 THEN carrot
                            ELSE IF i = 2 THEN corn ELSE IF i = 3 THEN grape
                            ELSE diamond]
  /\ out.res.combo_range = Range(0, 4)
  /\ out.res.points > 0

\* index of the largest range of m_ranges, the leftmost on ties
LargestRange ==
  CHOOSE i \in 0 .. (m_ranges.n - 1) :
    \A j \in 0 .. (m_ranges.n - 1) :
      \/ m_ranges.buf[j].size < m_ranges.buf[i].size
      \/ (m_ranges.buf[j].size = m_ranges.buf[i].size /\ j >= i)

\* C10: on every row the result reports the largest range left by the
\* three passes (leftmost on ties), with points = 0 and free_speen = FALSE
\* exactly when its size is below 3, and points > 0 otherwise.
C10_WeakCutoff ==
  FirstCall =>
    /\ out.status = "returned"
    /\ m_ranges.n > 0
    /\ out.res.combo_range = m_ranges.buf[LargestRange]
    /\ (out.res.combo_range.size < WinSize
          <=> (out.res.points = 0 /\ ~out.res.free_speen))
    /\ (out.res.combo_range.size >= WinSize => out.res.points > 0)

\* the same on the calls that stay inside m_ranges and m_row
WeakCutoffInBounds ==
  (FirstCall /\ out.status = "returned" /\ ~out.oob /\ ~out.rowoob) =>
    /\ m_ranges.n > 0
    /\ out.res.combo_range = m_ranges.buf[LargestRange]
    /\ (out.res.combo_range.size < WinSize
          <=> (out.res.points = 0 /\ ~out.res.free_speen))
    /\ (out.res.combo_range.size >= WinSize => out.res.points > 0)

(***************************************************************************)
(* The payout of a winning result.                                         *)
(***************************************************************************)
Winning == FirstCall /\ out.status = "returned" /\ out.res.points > 0

\* the length of the run of equal symbols that starts at rb, cut at the
\* end of the reported range
RunLength(rb) ==
  LET rend == out.res.combo_range.begin + out.res.combo_range.size - 1
  IN CHOOSE e \in 1 .. g_nreels :
       /\ rb + e - 1 <= rend
       /\ \A i \in rb .. (rb + e - 1) : m_row[i] = m_row[rb]
       /\ (rb + e - 1 = rend \/ m_row[rb + e] # m_row[rb])

\* the heads of the runs of equal symbols inside the reported range
RunHeads ==
  {rb \in Idx : /\ rb >= out.res.combo_range.begin
                /\ rb < out.res.combo_range.begin + out.res.combo_range.size
                /\ (rb = out.res.combo_range.begin \/ m_row[rb - 1] # m_row[rb])}

\* the head of the longest run inside the reported range, leftmost on ties
ExactHead ==
  CHOOSE rb \in RunHeads :
    \A r2 \in RunHeads :
      \/ RunLength(r2) < RunLength(rb)
      \/ (RunLength(r2) = RunLength(rb) /\ r2 >= rb)

\* the symbols the claim allows as dominant: the symbol of the longest run,
\* or, for a wildcard run shorter than the range, the symbols of the range
\* that border it
Dominants ==
  IF m_row[ExactHead] # question
     \/ RunLength(ExactHead) = out.res.combo_range.size
  THEN {m_row[ExactHead]}
  ELSE {m_row[i] : i \in {k \in {ExactHead - 1, ExactHead + RunLength(ExactHead)} :
                            /\ k >= out.res.combo_range.begin
                            /\ k < out.res.combo_range.begin
                                     + out.res.combo_range.size}}

PayoutOf(d) ==
  get_symbol_base_value(d)
    * Pow(big_multiplier, RunLength(ExactHead))
    * Pow(small_multiplier, out.res.combo_range.size - RunLength(ExactHead))

\* C11: every winning result has points = base_value(dominant) * 5^e *
\* 2^(c - e), c the size of the reported range, e the size of its longest
\* run of equal symbols (leftmost on ties), dominant the symbol of that run
\* or, for a wildcard run shorter than the range, a symbol of the range
\* next to it.
C11_PayoutFormula ==
  Winning => \E d \in Dominants : out.res.points = PayoutOf(d)

\* the longest run is a wildcard run that ends the reported range without
\* filling it
WildcardEndsRange ==
  /\ m_row[ExactHead] = question
  /\ RunLength(ExactHead) < out.res.combo_range.size
  /\ ExactHead + RunLength(ExactHead)
       = out.res.combo_range.begin + out.res.combo_range.size

\* the same on the calls that stay inside m_ranges and whose longest run is
\* not a wildcard run at the end of the range
PayoutAwayFromRangeEnd ==
  (Winning /\ ~out.oob /\ ~WildcardEndsRange) =>
    /\ out.dominant \in Dominants
    /\ out.res.points = PayoutOf(out.dominant)

\* C12: on every winning result the free-spin flag is set if and only if
\* the dominant symbol of the reported range is respin.
C12_FreeSpin ==
  Winning => (out.res.free_speen <=> respin \in Dominants)

\* the same on the calls that stay inside m_ranges and m_row, the weak
\* results included: they never grant a free spin
FreeSpinInBounds ==
  (FirstCall /\ out.status = "returned" /\ ~out.oob /\ ~out.rowoob) =>
    (out.res.free_speen <=> (out.res.points > 0 /\ out.dominant = respin))

(***************************************************************************)
(* Properties of the planning calls and of the motion under a plan.        *)
(***************************************************************************)
\* C13: after stop_in, go_full_speed_in or slow_to_minimal_in, called in
\* any state, the controller is in state had_impact.
C13_ReplanImpacted ==
  last.op \in {"stop_in", "go_full_speed_in", "slow_to_minimal_in"} =>
    reel.m_state = had_impact

\* the speed of the jerk law of m after the time s
SpeedAt(m, s) ==
  RAdd(m.spd, RAdd(RMul(m.acc, s), RDiv(RMul(m.jrk, RMul(s, s)), I(2))))

\* the position of the jerk law of m after the time s
PositionAt(m, s) ==
  RAdd(m.pos,
    RAdd(RMul(m.spd, s),
      RAdd(RDiv(RMul(m.acc, RMul(s, s)), I(2)),
           RDiv(RMul(m.jrk, RMul(s, RMul(s, s))), I(6)))))

\* the time of the extremum of the speed of the jerk law of m
Vertex(m) == RDiv(RNeg(m.acc), m.jrk)

\* the times of [0, dt] where the speed of the jerk law can be extreme
Extremes(m, dt) ==
  {Zero, dt} \cup
    (IF m.jrk # Zero /\ RGt(Vertex(m), Zero) /\ RLt(Vertex(m), dt)
     THEN {Vertex(m)} ELSE {})

\* the speed of the jerk law of m stays in the corridor over [0, dt]
StaysInside(m, dt) ==
  \A s \in Extremes(m, dt) :
    RLe(m.m_min_speed, SpeedAt(m, s)) /\ RLe(SpeedAt(m, s), m.m_max_speed)

\* C14: when the speed of the jerk law stays in [m_min_speed, m_max_speed]
\* over the whole step, SpeedLimitedMotion::advance(dt) leaves the position,
\* speed and acceleration of Motion::advance(dt).
C14_RawInsideCorridor ==
  (bm_steps > 0 /\ StaysInside(bm_before, bm_dt)) =>
    /\ bm.pos = PositionAt(bm_before, bm_dt)
    /\ bm.spd = SpeedAt(bm_before, bm_dt)
    /\ bm.acc = RAdd(bm_before.acc, RMul(bm_before.jrk, bm_dt))

\* the same for a corridor with a finite ceiling that the speed reaches
\* within the step or that holds the speed constant
RawInsideFiniteCorridor ==
  (bm_steps > 0 /\ StaysInside(bm_before, bm_dt)
     /\ ~isinf(bm_before.m_max_speed)) =>
    /\ bm.pos = PositionAt(bm_before, bm_dt)
    /\ bm.spd = SpeedAt(bm_before, bm_dt)
    /\ bm.acc = RAdd(bm_before.acc, RMul(bm_before.jrk, bm_dt))

\* stop_in was the last call, on a controller of speed >= 0 (stop_in
\* leaves position and speed as they were)
StopPlanCase == last.op = "stop_in" /\ RGe(reel.spd, Zero)

\* the number k of rotations of the plan
Rotations ==
  RDiv(RSub(PositionAt(reel, plan.time), plan.target), reel.m_length)

\* C15: the jerk j and acceleration a left by stop_in(target, t) on a
\* controller of speed v0 >= 0 satisfy k*length + target = pos0 + v0*t +
\* a*t^2/2 + j*t^3/6 for an integer k, v0 + a*t + j*t^2/2 = 0, and
\* v0 + a*s + j*s^2/2 >= 0 for every s in [0, t].
C15_StopPlanEquations ==
  StopPlanCase =>
    /\ IsWhole(Rotations)
    /\ SpeedAt(reel, plan.time) = Zero
    /\ \A s \in Extremes(reel, plan.time) : RGe(SpeedAt(reel, s), Zero)

\* a re-plan at positive speed that needs a further rotation
C15_Witness ==
  /\ StopPlanCase
  /\ RGt(reel.spd, Zero)
  /\ RGe(Rotations, I(1))
  /\ C15_StopPlanEquations

\* the advances since the planning call had positive steps, and some of
\* them summed to the time of the plan
PlanTimeMet == plan.met /\ plan.steps = nstep

\* C16: after go_full_speed_in(t) at Rest and advances with positive steps
\* summing to t, the speed is the ceiling given to set_max_speed, and it is
\* the ceiling after every later advance.
C16_RampUpReachesCruise ==
  (plan.op = "go_full_speed_in" /\ plan.from = rest /\ PlanTimeMet) =>
    reel.spd = plan.target

\* the same for a controller whose floor m_min_speed is 0
RampUpFromZeroFloor ==
  (plan.op = "go_full_speed_in" /\ plan.from = rest /\ PlanTimeMet
     /\ reel.m_min_speed = Zero) =>
    reel.spd = plan.target

\* C17: after slow_to_minimal_in(t) on a Moving controller of zero jerk and
\* speed >= 0 and advances with positive steps summing to t, the speed is
\* the floor given to set_min_speed, and it is the floor after every later
\* advance.
C17_RampDownReachesFloor ==
  (/\ plan.op = "slow_to_minimal_in" /\ plan.from = moving
   /\ plan.jrk0 = Zero /\ RGe(plan.spd0, Zero)
   /\ PlanTimeMet) =>
    reel.spd = plan.target

\* the same at the advance that completes the time of the plan, from a
\* speed at or above the floor
RampDownAtPlanTime ==
  (/\ plan.op = "slow_to_minimal_in" /\ plan.from = moving
   /\ plan.jrk0 = Zero /\ RGe(plan.spd0, plan.target)
   /\ PlanTimeMet /\ plan.elapsed = plan.time) =>
    reel.spd = plan.target

(***************************************************************************)
(* Properties of Motion<MT> and quad_equation.                             *)
(***************************************************************************)
\* the coefficients of the speed equation of tts: (j/2) t^2 + a t + c = 0
SpeedGap == RSub(km.m.spd, tts.v1)

\* the speed of km reaches tts.v1 at the time t
ReachesAt(t) == t[2] # 0 /\ SpeedAt(km.m, t) = tts.v1

\* the other root of the speed equation, for a jerk # 0 and a root t
OtherRoot(t) == RSub(RDiv(RMul(I(-2), km.m.acc), km.m.jrk), t)

\* the answer of the claim: the smallest t >= 0 with speed(t) = v1
\* (+infinity when there is none), and the larger root >= 0 when there
\* are two (+infinity otherwise)
IsSmallestTime(t) ==
  /\ RGe(t, Zero) /\ ReachesAt(t)
  /\ SpeedGap = Zero => t = Zero
  /\ (km.m.jrk # Zero /\ RGe(OtherRoot(t), Zero)) => RGe(OtherRoot(t), t)

NeverReached ==
  IF km.m.jrk = Zero
  THEN IF km.m.acc = Zero THEN SpeedGap # Zero
       ELSE RLt(RDiv(RNeg(SpeedGap), km.m.acc), Zero)
  ELSE \/ RLt(RSub(RMul(km.m.acc, km.m.acc),
                   RMul(I(2), RMul(km.m.jrk, SpeedGap))), Zero)
       \/ /\ RLt(RDiv(RMul(I(-2), km.m.acc), km.m.jrk), Zero)
          /\ RGt(RDiv(RMul(I(2), SpeedGap), km.m.jrk), Zero)

SecondTime(t) ==
  IF km.m.jrk # Zero /\ RGe(t, Zero) /\ RGt(OtherRoot(t), t)
  THEN OtherRoot(t) ELSE infinity

\* C18: time_to_speed(v1) returns the smallest t >= 0 with speed(t) = v1,
\* 0 when the speed is v1 already, +infinity when there is no such t; the
\* second output is the larger of two roots >= 0, +infinity otherwise.
C18_TimeToSpeed ==
  tts.asked =>
    /\ IF NeverReached THEN tts.t = infinity ELSE IsSmallestTime(tts.t)
    /\ tts.second = (IF NeverReached THEN infinity ELSE SecondTime(tts.t))

\* the same when the speed changes with time or differs from v1
TimeToChangingSpeed ==
  (tts.asked /\ ~(km.m.jrk = Zero /\ km.m.acc = Zero /\ SpeedGap = Zero)) =>
    /\ IF NeverReached THEN tts.t = infinity ELSE IsSmallestTime(tts.t)
    /\ tts.second = (IF NeverReached THEN infinity ELSE SecondTime(tts.t))

\* C19: advance(dt1) followed by advance(dt2) leaves the position, speed
\* and acceleration of one advance(dt1 + dt2), which are position +
\* speed*dt + acceleration*dt^2/2 + jerk*dt^3/6, speed + acceleration*dt +
\* jerk*dt^2/2 and acceleration + jerk*dt.
C19_IntegrationExactness ==
  km.steps > 0 =>
    /\ km.m.pos = PositionAt(km.m0, km.total)
    /\ km.m.spd = SpeedAt(km.m0, km.total)
    /\ km.m.acc = RAdd(km.m0.acc, RMul(km.m0.jrk, km.total))

\* two positive steps of different length on a jerked motion
C19_Witness ==
  /\ km.steps = 2 /\ km.total = Q(3, 2)
  /\ km.MT = jerked /\ km.m0.jrk # Zero /\ km.m0.acc # Zero
  /\ C19_IntegrationExactness

\* a x^2 + b x + c of the quad_equation call at x
Residual(x) ==
  RAdd(RMul(quad.a, RMul(x, x)), RAdd(RMul(quad.b, x), quad.c))

IsRoot(x) == x[2] # 0 /\ Residual(x) = Zero

\* C20: quad_equation(a, b, c) returns <<infinity, none>> for a = b = c =
\* 0, the one root -c/b for a = 0 and b # 0, no root for a = b = 0 and
\* c # 0, and for a # 0 and d = b^2 - 4ac two different roots when d > 0,
\* the one root -b/(2a) when d = 0, no root when d < 0; every finite root
\* returned solves the equation.
C20_RootClassification ==
  quad.asked =>
    LET d == RSub(RMul(quad.b, quad.b), RMul(I(4), RMul(quad.a, quad.c)))
        r == quad.roots
    IN IF quad.a = Zero
       THEN IF quad.b = Zero
            THEN IF quad.c = Zero THEN r = <<infinity, NAN>>
                 ELSE r = <<NAN, NAN>>
            ELSE /\ r = <<RDiv(RNeg(quad.c), quad.b), NAN>>
                 /\ IsRoot(r[1])
       ELSE IF RGt(d, Zero)
            THEN IsRoot(r[1]) /\ IsRoot(r[2]) /\ r[1] # r[2]
            ELSE IF d = Zero
            THEN /\ r = <<RDiv(RNeg(quad.b), RMul(I(2), quad.a)), NAN>>
                 /\ IsRoot(r[1])
            ELSE r = <<NAN, NAN>>

\* two different roots, neither of them whole
C20_Witness ==
  /\ quad.asked /\ quad.a # Zero
  /\ quad.roots[1][2] > 1 /\ quad.roots[2][2] > 1
  /\ quad.roots[1] # quad.roots[2]
  /\ C20_RootClassification

(***************************************************************************)
(* The contract of stop_in.                                                *)
(***************************************************************************)
\* a step that is a call of stop_in with t = 0 or end_position > m_length
BreachStep ==
  \/ last.op # "abort" /\ last'.op = "abort"
  \/ /\ nplan' = nplan + 1 /\ last'.op = "stop_in"
     /\ ~(plan'.time # Zero /\ RLe(plan'.target, reel.m_length))

Rejected == last'.op = "abort" /\ reel' = reel

\* C21: a call of stop_in with t = 0 or end_position > m_length is stopped
\* by an assert before any field of the controller is written.
C21_FailFast == [][BreachStep => Rejected]_vars

\* the same in a build that does not define NDEBUG
C21_FailFastChecked == [][(BreachStep /\ ~ndebug) => Rejected]_vars

\* a moving controller whose stop_in(target, 0) was stopped by the assert
C21_Witness ==
  /\ ~ndebug /\ last = [op |-> "abort", arg |-> Zero]
  /\ reel.m_state = moving /\ RGt(reel.spd, Zero)

(***************************************************************************)
(* C22.  The components above the order of a motion.                       *)
(***************************************************************************)
\* the components above the order are 0, stored and read
FixedAtZero ==
  /\ km.MT < uniform =>
       km.m.spd = Zero /\ get_speed(km.MT, km.m) = Zero
  /\ km.MT < accelerated =>
       km.m.acc = Zero /\ get_acceleration(km.MT, km.m) = Zero
  /\ km.MT < jerked =>
       km.m.jrk = Zero /\ get_jerk(km.MT, km.m) = Zero

\* a step that calls the setter of a component above the order
SetAboveStep ==
  /\ km'.steps = km.steps + 1
  /\ km'.op \in Setters
  /\ km.MT < OrderOf(km'.op)

\* C22: for a motion of a given order, setting a derivative above that
\* order changes no component, that derivative is 0 and reads 0 in every
\* reachable state, and advance never makes it non-zero.
C22_OrderRestriction ==
  []FixedAtZero /\ [][SetAboveStep => km'.m = km.m]_vars

\* a uniform motion that was told an acceleration or a jerk and then
\* advanced from 0 with a speed
C22_Witness ==
  /\ km.MT = uniform /\ km.above /\ km.op = "advance"
  /\ km.m.spd # Zero /\ km.m.pos # Zero

(***************************************************************************)
(* C23.  The side rule of the wildcard pass.                               *)
(***************************************************************************)
\* the range r of the row holds wildcards only
WildcardRun(row, r) ==
  \A j \in Idx : (j >= r.begin /\ j < r.begin + r.size) => row[j] = question

\* the flank chosen for the wildcard run at index i of s: the single
\* neighbour at a row end, else the strictly larger neighbour, -1 on a tie
ChosenFlank(s, i) ==
  IF i = 0 THEN (IF s.n > 1 THEN 1 ELSE -1)
  ELSE IF i = s.n - 1 THEN i - 1
  ELSE IF s.buf[i + 1].size > s.buf[i - 1].size THEN i + 1
  ELSE IF s.buf[i - 1].size > s.buf[i + 1].size THEN i - 1
  ELSE -1

\* the side rule applied to the wildcard runs of s from index i on, from
\* left to right, each flank with the wildcards it has taken so far
RECURSIVE SideRule(_, _, _)
SideRule(row, s, i) ==
  IF i >= s.n THEN s
  ELSE IF ~WildcardRun(row, s.buf[i]) THEN SideRule(row, s, i + 1)
  ELSE IF ChosenFlank(s, i) = -1 THEN SideRule(row, s, i + 1)
  ELSE IF s.buf[ChosenFlank(s, i)].size < s.buf[i].size
  THEN SideRule(row, s, i + 1)
  ELSE SideRule(row,
         VecErase([s EXCEPT !.buf[ChosenFlank(s, i)] =
                     Range(Min(s.buf[ChosenFlank(s, i)].begin, s.buf[i].begin),
                           s.buf[ChosenFlank(s, i)].size + s.buf[i].size)],
                  i, i + 1),
         i)

\* the ranges of s, without the slots past the end
Kept(s) == [k \in 0 .. (s.n - 1) |-> s.buf[k]]

\* the ranges of the row when the wildcard pass begins its second loop
BeforeSide(row) ==
  QuestionsMiddle(row, [buf |-> get_ranges(row).buf, n |-> get_ranges(row).n,
                        oob |-> FALSE, wild |-> FALSE], 1)

SideRuleHolds(row, q) ==
  /\ ~QuestionsSide(row, q, 0).oob
  /\ Kept(QuestionsSide(row, q, 0)) = Kept(SideRule(row, q, 0))

\* C23: in the second loop of the wildcard pass every wildcard run that
\* still has flanks of different symbols is merged into its single
\* neighbour at a row end, else into the strictly larger flank, provided
\* that flank is not smaller than the run, and stays a separate range on a
\* tie or when it is larger than the chosen flank; nothing else is merged.
C23_WildcardSideRule ==
  (FirstCall /\ HasSymbol(question) /\ get_ranges(m_row).buf[0].size < g_nreels)
    => SideRuleHolds(m_row, BeforeSide(m_row))

\* the side rule on the rows that do not begin with a wildcard
SideRuleAwayFromRowStart ==
  (FirstCall /\ HasSymbol(question) /\ m_row[0] # question)
    => SideRuleHolds(m_row, BeforeSide(m_row))

\* [apple, question, spade, spade, cross]: the wildcard joins the spades
SideRuleCase ==
  /\ FirstCall
  /\ m_row = [i \in Idx |-> IF i = 0 THEN apple ELSE IF i = 1 THEN question
                            ELSE IF i < 4 THEN spade ELSE cross]
  /\ QuestionsSide(m_row, BeforeSide(m_row), 0).n = 3
  /\ QuestionsSide(m_row, BeforeSide(m_row), 0).buf[1] = Range(1, 3)

(***************************************************************************)
(* C24.  The symbols of a winning range.                                   *)
(***************************************************************************)
\* the symbols of the set are of one family, and one symbol when that
\* family is special
Homogeneous(syms) ==
  \A x \in syms : \A y \in syms :
    /\ get_symbol_family(x) = get_symbol_family(y)
    /\ (get_symbol_family(x) = special => x = y)

WinningCall ==
  /\ FirstCall /\ out.status = "returned" /\ ~out.oob /\ ~out.rowoob
  /\ out.res.points > 0

\* C24: on every row, the non-wildcard symbols of the reported winning
\* range belong to one family and are one symbol when that family is
\* special, so that no wildcard run joins ranges of different symbols
\* (stated on the calls that stay inside m_ranges and m_row).
C24_ComboHomogeneity ==
  WinningCall => Homogeneous(ComboSymbols \ {question})

\* the same on the rows that do not begin with a wildcard
HomogeneousAwayFromRowStart ==
  (WinningCall /\ m_row[0] # question) => Homogeneous(ComboSymbols \ {question})

(***************************************************************************)
(* C25.  A planned stop completes.                                         *)
(***************************************************************************)
\* the last call was an advance with a positive step that began when the
\* steps since stop_in(target, t) already summed to more than t
StopTimePassed ==
  /\ plan.op = "stop_in"
  /\ last.op = "advance" /\ RGt(last.arg, Zero)
  /\ RGt(RSub(plan.elapsed, last.arg), plan.time)

\* an advance leaves a controller at Rest at Rest
RestKept ==
  (reel.m_state = rest /\ last'.op = "advance") => reel'.m_state = rest

\* C25: after stop_in(target, t) with t > 0 in any reachable state, the
\* controller is at Rest after every advance with a positive step that
\* began once the steps summed to more than t, and an advance never moves
\* it out of Rest.
C25_StopCompletes ==
  [](StopTimePassed => reel.m_state = rest) /\ [][RestKept]_vars

\* the same, but for the controller that stop_in found at speed 0 on its
\* target: it is left in Moving with speed, acceleration and jerk 0
StopCompletesOrStands ==
  [](StopTimePassed =>
       \/ reel.m_state = rest
       \/ /\ plan.spd0 = Zero
          /\ reel.spd = Zero /\ reel.acc = Zero /\ reel.jrk = Zero
          /\ reel.pos = RMod(plan.target, reel.m_length))
    /\ [][RestKept]_vars

\* a stop from a positive speed that has come to Rest on its target
StopCompletesCase ==
  /\ StopTimePassed
  /\ RGt(plan.spd0, Zero)
  /\ reel.m_state = rest
  /\ reel.pos = RMod(plan.target, reel.m_length)

(***************************************************************************)
(* C26.  A full stop happens at speed 0.                                   *)
(***************************************************************************)
\* the time within a step dt at which a moving controller r stops
\* integrating
IntegratedTime(r, dt) ==
  IF RLe(time_to_speed(jerked, r, Zero).t, dt)
  THEN time_to_speed(jerked, r, Zero).t ELSE dt

\* the speed inside the corridor is 0 at that time
ReachesZero(r, dt) ==
  SpeedLimitedMotion_advance(jerked, r, IntegratedTime(r, dt)).spd = Zero

\* an advance that takes the controller from Moving to Rest
ToRestStep ==
  last'.op = "advance" /\ reel.m_state = moving /\ reel'.m_state = rest

\* an advance of a controller with a positive floor and a speed not below it
AboveFloorStep ==
  /\ last'.op = "advance"
  /\ RGt(reel.m_min_speed, Zero) /\ RGe(reel.spd, reel.m_min_speed)

\* C26: an advance takes the controller from Moving to Rest only if the
\* speed inside the corridor is 0 at the time the step stops at; an advance
\* of a controller whose floor m_min_speed is positive and whose speed is
\* not below it neither ends at Rest nor leaves a speed below the floor.
C26_FullStopAtZero ==
  [][/\ ToRestStep => ReachesZero(reel, last'.arg)
     /\ AboveFloorStep =>
          (reel'.m_state # rest /\ RGe(reel'.spd, reel.m_min_speed))]_vars

\* the same for the controllers whose floor is 0
FullStopAtZeroFloor ==
  [][(ToRestStep /\ reel.m_min_speed = Zero)
       => ReachesZero(reel, last'.arg)]_vars

(***************************************************************************)
(* C27.  What go_full_speed_in and the two setters change.                 *)
(***************************************************************************)
GoStep == nplan' = nplan + 1 /\ last'.op = "go_full_speed_in"

SetterStep ==
  nconf' = nconf + 1 /\ last'.op \in {"set_min_speed", "set_max_speed"}

\* the active corridor [m_min_speed, m_max_speed] of r
Corridor(r) == <<r.m_min_speed, r.m_max_speed>>

\* C27: go_full_speed_in sets the active ceiling m_max_speed to the
\* configured one and leaves position, speed, jerk and the active floor
\* m_min_speed (and the length and the configured values) as they were, so
\* that called after stop_in it leaves the corridor [0, configured
\* ceiling]; set_min_speed and set_max_speed change one configured value
\* each and nothing else.
C27_GoFullSpeedFrame ==
  [][/\ GoStep =>
          /\ reel'.m_max_speed = reel.m_max_speed_proxy
          /\ reel' = [reel EXCEPT !.m_max_speed = reel'.m_max_speed,
                                   !.acc = reel'.acc,
                                   !.m_state = reel'.m_state]
          /\ plan.op = "stop_in" =>
               Corridor(reel') = <<Zero, reel.m_max_speed_proxy>>
     /\ SetterStep =>
          /\ reel' = [reel EXCEPT
                        !.m_min_speed_proxy = reel'.m_min_speed_proxy,
                        !.m_max_speed_proxy = reel'.m_max_speed_proxy]
          /\ (last'.op = "set_min_speed") =>
               reel'.m_max_speed_proxy = reel.m_max_speed_proxy
          /\ (last'.op = "set_max_speed") =>
               reel'.m_min_speed_proxy = reel.m_min_speed_proxy]_vars

\* go_full_speed_in during a stop, on a controller whose configured floor
\* is 1 and whose configured ceiling is 3: the corridor is [0, 3]
C27_Witness ==
  /\ last.op = "go_full_speed_in"
  /\ reel.jrk # Zero /\ RGt(reel.spd, Zero)
  /\ reel.m_min_speed_proxy = I(1) /\ reel.m_max_speed_proxy = I(3)
  /\ Corridor(reel) = <<Zero, I(3)>>

(***************************************************************************)
(* C28.  get_result called twice.                                          *)
(***************************************************************************)
SecondCall == calls = 1 /\ calls' = 2

SameResult ==
  /\ out'.status = "returned" /\ ~out'.oob /\ ~out'.rowoob
  /\ out'.res = out.res

\* C28: on every row, a second call of get_result on the same Combination
\* stays inside m_ranges and m_row and returns the range, the points and
\* the free-spin flag of the first call.
C28_Repeatable == [][SecondCall => SameResult]_vars

\* the same for the rows on which no pass changes a range: no wildcard, no
\* cross, no two different neighbours of one non-special family
RepeatablePlainRows ==
  [][(SecondCall /\ ~HasSymbol(question) /\ ~HasSymbol(cross)
        /\ ~FamilyNeighbours) => SameResult]_vars

(***************************************************************************)
(* C29.  The transitions of the game.                                      *)
(***************************************************************************)
\* the state after the event e in the state from, auto the free-spin flag
\* of the result shown, along the cycle Idle, SpeedUp, StopWait,
\* SlowingDown, Result; from itself for every other pair
Cycle(from, e, auto) ==
  IF from = "IdleState" /\ e = "start_pressed" THEN "SpeedUpState"
  ELSE IF from = "SpeedUpState" /\ e = "enable_stop_timer" THEN "StopWaitState"
  ELSE IF from = "StopWaitState" /\ e \in {"stop_pressed", "spin_time_out"}
  THEN "SlowingDownState"
  ELSE IF from = "SlowingDownState" /\ e = "reels_stopped" THEN "ResultState"
  ELSE IF from = "ResultState" /\ e = "show_result_time_out"
  THEN (IF auto THEN "SpeedUpState" ELSE "IdleState")
  ELSE from

\* the same with the transition from Idle on reels_stopped
CycleWithTestEntry(from, e, auto) ==
  IF from = "IdleState" /\ e = "reels_stopped" THEN "ResultState"
  ELSE Cycle(from, e, auto)

\* a call of handle_event that follows the table next: it ends in the
\* state of the table, and a pair the table sends to its own state leaves
\* the game as it was
Follows(h, to) == h.to = to /\ (to = h.from => h.kept)

\* C29 as stated: every call of handle_event follows the cycle Idle
\* -start_pressed-> SpeedUp -enable_stop_timer-> StopWait -stop_pressed or
\* spin_time_out-> SlowingDown -reels_stopped-> Result
\* -show_result_time_out-> SpeedUp after a free spin, else Idle, and every
\* other pair of state and event leaves the game unchanged.
C29_CycleOnly ==
  \A i \in DOMAIN handled :
    Follows(handled[i], Cycle(handled[i].from, handled[i].event, handled[i].auto))

\* C29: every call of handle_event follows that cycle or takes Idle to
\* Result on reels_stopped, and every other pair of state and event leaves
\* the game unchanged; Result is entered from SlowingDown and from Idle.
C29_FsmOrder ==
  \A i \in DOMAIN handled :
    Follows(handled[i],
            CycleWithTestEntry(handled[i].from, handled[i].event, handled[i].auto))

\* a timer that takes the result of a free spin back to SpeedUp
C29_Witness ==
  /\ game.m_state = "SpeedUpState"
  /\ game.m_auto_spin
  /\ \E i \in DOMAIN handled :
       /\ handled[i].from = "ResultState" /\ handled[i].to = "SpeedUpState"
       /\ handled[i].event = "show_result_time_out"

\* Result entered from Idle by the timer of set_symbol_row
TestEntryCase ==
  /\ game.m_state = "ResultState"
  /\ \E i \in DOMAIN handled :
       /\ handled[i].from = "IdleState" /\ handled[i].to = "ResultState"
       /\ handled[i].event = "reels_stopped"
  /\ Len(handled) = 1

====
